---- MODULE Spec2Model ----
(***************************************************************************)
(* A model of moto's in-memory API Gateway backend                         *)
(* (moto/apigateway/models.py): the resource tree, methods, integrations,  *)
(* deployments and stages of the REST APIs held by one APIGatewayBackend.  *)
(*                                                                         *)
(* Python dictionaries are modelled as functions; the resources dictionary *)
(* of a REST API is a sequence, because create_deployment depends on the   *)
(* insertion order of that dictionary.  Strings are TLA+ strings, examined *)
(* character by character with SubSeq.                                     *)
(***************************************************************************)
EXTENDS Integers, Sequences, FiniteSets, TLC

VARIABLES apis, nextId, last, keys, usage_plans, usage_plan_keys, domain_names, backend_resources

vars == <<apis, nextId, last, keys, usage_plans, usage_plan_keys, domain_names, backend_resources>>

\* the domain names of the backend, and its attribute "resources", which
\* only put_rest_api assigns: None while the backend has no such attribute
domainVars == <<domain_names, backend_resources>>

\* the API keys, the usage plans and their associations, and the rest of
\* the backend that is not in apis
keyVars == <<keys, usage_plans, usage_plan_keys, domainVars>>

(***************************************************************************)
(* Bounds of the model.                                                    *)
(***************************************************************************)
MaxResources == 3
MaxDeployments == 2
MaxIds == 4
MaxBatch == 3
MaxKeys == 2
MaxPlans == 2

(***************************************************************************)
(* Strings.                                                                *)
(***************************************************************************)
Char(s, i) == SubSeq(s, i, i)

StartsWith(s, p) == Len(s) >= Len(p) /\ SubSeq(s, 1, Len(p)) = p

\* a in b, for Python strings
Contains(s, sub) ==
    \E i \in 1..(Len(s) - Len(sub) + 1) : SubSeq(s, i, i + Len(sub) - 1) = sub

\* the number of characters of s, from position i on, before the first
\* character of stop
RECURSIVE RunUntil(_, _, _)
RunUntil(s, i, stop) ==
    IF i <= Len(s) /\ Char(s, i) \notin stop
      THEN 1 + RunUntil(s, i + 1, stop) ELSE 0

\* s.find(c) for a one-character c, 1-based; 0 when c does not occur
Find(s, c) ==
    LET n == RunUntil(s, 1, {c})
    IN  IF n = Len(s) THEN 0 ELSE n + 1

\* s.rfind(c) for a one-character c, 1-based; 0 when c does not occur
RFind(s, c) ==
    IF \E i \in 1..Len(s) : Char(s, i) = c
      THEN CHOOSE i \in 1..Len(s) :
              Char(s, i) = c /\ \A j \in (i + 1)..Len(s) : Char(s, j) # c
      ELSE 0

Lower == {"a", "b", "c", "d", "e", "f", "g", "h", "i", "j", "k", "l", "m",
          "n", "o", "p", "q", "r", "s", "t", "u", "v", "w", "x", "y", "z"}
Upper == {"A", "B", "C", "D", "E", "F", "G", "H", "I", "J", "K", "L", "M",
          "N", "O", "P", "Q", "R", "S", "T", "U", "V", "W", "X", "Y", "Z"}
Digit == {"0", "1", "2", "3", "4", "5", "6", "7", "8", "9"}

\* the character class [a-zA-Z0-9-]
AlnumDash == Lower \cup Upper \cup Digit \cup {"-"}

\* the character class [a-zA-Z0-9._-]
PathChar == Lower \cup Upper \cup Digit \cup {".", "_", "-"}

\* the length of the longest prefix of s, from position i on, made of
\* characters of class cls (a greedy cls* starting at i)
RECURSIVE Run(_, _, _)
Run(s, i, cls) ==
    IF i <= Len(s) /\ Char(s, i) \in cls THEN 1 + Run(s, i + 1, cls) ELSE 0

(***************************************************************************)
(* Values.                                                                 *)
(***************************************************************************)
\* Python's None
None == "<None>"

\* Python's True and False, where they share a place with None or strings
PyTrue == "<True>"
PyFalse == "<False>"

\* bool(v) for a value that is None, a boolean or a string
Truthy(v) == v \notin {None, PyFalse, ""}

\* the outcome of a call that returns normally
OK == "ok"

\* .utils.create_id: an identifier no earlier call returned
create_id == "id" \o ToString(nextId)

\* an identifier that create_id never returns
UnknownId == "nosuchid"

\* a Python dictionary is a function; d[k] = v on it
Put(d, k, v) == [x \in DOMAIN d \cup {k} |-> IF x = k THEN v ELSE d[x]]

\* d.pop(k) / del d[k] for a key that is present
Drop(d, k) == [x \in DOMAIN d \ {k} |-> d[x]]

EmptyDict == [x \in {} |-> None]

\* Python's None where the other values are dictionaries
NoneObj == [none |-> None]

\* the call that was made last, its outcome and what it returned
Call(op, args, result, ret) ==
    [op |-> op, args |-> args, result |-> result, ret |-> ret]

Idle == Call("none", <<>>, OK, <<>>)

(***************************************************************************)
(* Resource.                                                               *)
(***************************************************************************)
\* Resource.__init__
Resource(id, api_id, path_part, parent_id) ==
    [id |-> id, api_id |-> api_id, path_part |-> path_part,
     parent_id |-> parent_id, resource_methods |-> EmptyDict]

\* the keys of a resources dictionary, in insertion order
ResourceIds(resources) == {resources[i].id : i \in 1..Len(resources)}

\* resources[resource_id], for a key that is present
ResourceAt(resources, resource_id) ==
    resources[CHOOSE i \in 1..Len(resources) : resources[i].id = resource_id]

\* resources.pop(resource_id), for a key that is present
PopResource(resources, resource_id) ==
    SelectSeq(resources, LAMBDA r : r.id # resource_id)

\* resources[r.id] = r for a resource that is present
PutResource(resources, r) ==
    [i \in 1..Len(resources) |->
        IF resources[i].id = r.id THEN r ELSE resources[i]]

KeyError == "KeyError"

\* Resource.get_path and Resource.get_parent_path; the lookup of a parent
\* that is not in the mapping raises KeyError
RECURSIVE get_path(_, _)

\* get_parent_path without the test for a root parent
get_parent_path_always_slash(resources, r) ==
    IF Truthy(r.parent_id)
      THEN IF r.parent_id \notin ResourceIds(resources)
             THEN KeyError
             ELSE LET parent_path ==
                          get_path(resources, ResourceAt(resources, r.parent_id))
                  IN  IF parent_path = KeyError THEN KeyError
                      ELSE parent_path \o "/"
      ELSE ""

\* get_parent_path that takes a parent that is not in the mapping for no
\* parent
get_parent_path_skip_missing(resources, r) ==
    IF Truthy(r.parent_id) /\ r.parent_id \in ResourceIds(resources)
      THEN LET parent_path ==
                   get_path(resources, ResourceAt(resources, r.parent_id))
           IN  IF parent_path = KeyError THEN KeyError
               ELSE IF parent_path # "/" THEN parent_path \o "/"
               ELSE parent_path
      ELSE ""

get_parent_path(resources, r) ==
    IF Truthy(r.parent_id)
      THEN IF r.parent_id \notin ResourceIds(resources)
             THEN KeyError
             ELSE LET parent_path ==
                          get_path(resources, ResourceAt(resources, r.parent_id))
                  IN  IF parent_path = KeyError THEN KeyError
                      ELSE IF parent_path # "/" THEN parent_path \o "/"
                      ELSE parent_path
      ELSE ""

get_path(resources, r) ==
    LET parent_path == get_parent_path(resources, r)
    IN  IF parent_path = KeyError THEN KeyError ELSE parent_path \o r.path_part

(***************************************************************************)
(* RestAPI.                                                                *)
(***************************************************************************)
\* RestAPI.add_child: the resources mapping after the insertion
add_child(api, child_id, path, parent_id) ==
    [api EXCEPT !.resources =
        Append(@, Resource(child_id, api.id, path, parent_id))]

\* RestAPI.__init__
RestAPI(id, root_id, name) ==
    add_child([id |-> id, name |-> name, deployments |-> EmptyDict,
               stages |-> EmptyDict, authorizers |-> EmptyDict,
               models |-> EmptyDict, resources |-> <<>>],
              root_id, "/", None)

(***************************************************************************)
(* APIGatewayBackend: REST APIs and resources.                             *)
(***************************************************************************)
ApiNames == {"api"}

\* the REST API ids a caller passes: the ids of the stored APIs and one
\* that was never issued
ApiIds == DOMAIN apis \cup {UnknownId}

\* APIGatewayBackend.get_rest_api raises RestAPINotFound for an absent id
RestAPINotFound(function_id) == function_id \notin DOMAIN apis

\* re.match("^\\{?[a-zA-Z0-9._-]+\\+?\\}?$", path_part)
MatchesPathPart(s) ==
    LET p1 == IF Len(s) >= 1 /\ Char(s, 1) = "{" THEN 2 ELSE 1
        n  == Run(s, p1, PathChar)
        p2 == p1 + n
        p3 == IF p2 <= Len(s) /\ Char(s, p2) = "+" THEN p2 + 1 ELSE p2
        p4 == IF p3 <= Len(s) /\ Char(s, p3) = "}" THEN p3 + 1 ELSE p3
    IN  /\ n >= 1
        /\ \/ p4 = Len(s) + 1
           \/ p4 = Len(s) /\ Char(s, p4) = "\n"

PathParts == {"a", "{p+}", "a/b"}

\* APIGatewayBackend.create_rest_api
create_rest_api(name) ==
    /\ nextId + 1 <= MaxIds
    /\ LET api_id  == "id" \o ToString(nextId)
           root_id == "id" \o ToString(nextId + 1)
       IN  /\ apis' = Put(apis, api_id, RestAPI(api_id, root_id, name))
           /\ last' = Call("create_rest_api", <<name>>, OK, api_id)
    /\ nextId' = nextId + 2
    /\ UNCHANGED keyVars

\* APIGatewayBackend.create_resource
create_resource(function_id, parent_resource_id, path_part) ==
    IF ~MatchesPathPart(path_part)
      THEN /\ last' = Call("create_resource",
                           <<function_id, parent_resource_id, path_part>>,
                           "InvalidResourcePathException", None)
           /\ UNCHANGED <<apis, nextId, keyVars>>
    ELSE IF RestAPINotFound(function_id)
      THEN /\ last' = Call("create_resource",
                           <<function_id, parent_resource_id, path_part>>,
                           "RestAPINotFound", None)
           /\ UNCHANGED <<apis, nextId, keyVars>>
    ELSE /\ nextId <= MaxIds
         /\ Len(apis[function_id].resources) < MaxResources
         /\ apis' = [apis EXCEPT ![function_id] =
                        add_child(@, create_id, path_part, parent_resource_id)]
         /\ nextId' = nextId + 1
         /\ UNCHANGED keyVars
         /\ last' = Call("create_resource",
                         <<function_id, parent_resource_id, path_part>>,
                         OK, create_id)

\* the loop of RestAPI.get_resource_for_path from the i-th resource on: the
\* id of the first resource whose path is the one looked for, KeyError when
\* get_path raises it for a resource met before, None at the end of the
\* dictionary, where the method returns without a value
RECURSIVE get_resource_for_path_from(_, _, _)
get_resource_for_path_from(resources, i, path_after_stage_name) ==
    IF i > Len(resources) THEN None
    ELSE IF get_path(resources, resources[i]) = KeyError THEN KeyError
    ELSE IF get_path(resources, resources[i]) = path_after_stage_name
      THEN resources[i].id
    ELSE get_resource_for_path_from(resources, i + 1, path_after_stage_name)

\* RestAPI.get_resource_for_path, of the REST API function_id
get_resource_for_path(function_id, path_after_stage_name) ==
    LET found == get_resource_for_path_from(apis[function_id].resources, 1,
                                            path_after_stage_name)
    IN  /\ last' = Call("get_resource_for_path",
                        <<function_id, path_after_stage_name>>,
                        IF found = KeyError THEN KeyError ELSE OK,
                        IF found = KeyError THEN None ELSE found)
        /\ UNCHANGED <<apis, nextId, keyVars>>

\* delete_resource that also removes the children of the resource
delete_resource_cascade(function_id, resource_id) ==
    IF RestAPINotFound(function_id)
      THEN /\ last' = Call("delete_resource", <<function_id, resource_id>>,
                           "RestAPINotFound", None)
           /\ UNCHANGED <<apis, nextId, keyVars>>
    ELSE IF resource_id \notin ResourceIds(apis[function_id].resources)
      THEN /\ last' = Call("delete_resource", <<function_id, resource_id>>,
                           KeyError, None)
           /\ UNCHANGED <<apis, nextId, keyVars>>
    ELSE /\ apis' = [apis EXCEPT ![function_id].resources =
                        SelectSeq(@, LAMBDA r : /\ r.id # resource_id
                                                /\ r.parent_id # resource_id)]
         /\ last' = Call("delete_resource", <<function_id, resource_id>>,
                         OK, resource_id)
         /\ UNCHANGED <<nextId, keyVars>>

\* APIGatewayBackend.delete_resource
delete_resource(function_id, resource_id) ==
    IF RestAPINotFound(function_id)
      THEN /\ last' = Call("delete_resource", <<function_id, resource_id>>,
                           "RestAPINotFound", None)
           /\ UNCHANGED <<apis, nextId, keyVars>>
    ELSE IF resource_id \notin ResourceIds(apis[function_id].resources)
      THEN /\ last' = Call("delete_resource", <<function_id, resource_id>>,
                           KeyError, None)
           /\ UNCHANGED <<apis, nextId, keyVars>>
    ELSE /\ apis' = [apis EXCEPT ![function_id].resources =
                        PopResource(@, resource_id)]
         /\ last' = Call("delete_resource", <<function_id, resource_id>>,
                         OK, resource_id)
         /\ UNCHANGED <<nextId, keyVars>>

\* the resource ids a caller passes for an API: the ids in its mapping and
\* one that was never issued
ResourceInputs(function_id) ==
    IF function_id \in DOMAIN apis
      THEN ResourceIds(apis[function_id].resources) \cup {UnknownId}
      ELSE {UnknownId}

(***************************************************************************)
(* Method, Integration, IntegrationResponse.                               *)
(***************************************************************************)
\* Method.__init__; authorizerId, requestParameters and requestModels are
\* None in every method and are left out
Method(method_type, authorization_type, api_key_required) ==
    [httpMethod |-> method_type,
     authorizationType |-> authorization_type,
     apiKeyRequired |->
        IF Truthy(api_key_required) THEN api_key_required ELSE PyFalse,
     methodIntegration |-> NoneObj,
     method_responses |-> EmptyDict]

\* IntegrationResponse.__init__
IntegrationResponse(status_code, selection_pattern, response_templates, content_handling) ==
    LET base == [responseTemplates |->
                    IF response_templates = NoneObj
                      THEN [x \in {"application/json"} |-> None]
                      ELSE response_templates,
                 statusCode |-> status_code]
        sel  == IF Truthy(selection_pattern)
                  THEN Put(base, "selectionPattern", selection_pattern)
                  ELSE base
    IN  IF Truthy(content_handling)
          THEN Put(sel, "contentHandling", content_handling)
          ELSE sel

\* Integration.__init__
Integration(integration_type, uri, http_method, request_templates) ==
    [type |-> integration_type,
     uri |-> uri,
     httpMethod |-> http_method,
     requestTemplates |-> request_templates,
     integrationResponses |->
        [x \in {"200"} |-> IntegrationResponse(200, None, NoneObj, None)]]

\* add_method that keeps the integration and the responses of a method it
\* finds for the verb
add_method_merge(resource, method_type, authorization_type, api_key_required) ==
    [resource EXCEPT !.resource_methods =
        Put(@, method_type,
            IF method_type \in DOMAIN resource.resource_methods
              THEN [Method(method_type, authorization_type, api_key_required)
                       EXCEPT !.methodIntegration =
                                  resource.resource_methods[method_type]
                                      .methodIntegration,
                              !.method_responses =
                                  resource.resource_methods[method_type]
                                      .method_responses]
              ELSE Method(method_type, authorization_type, api_key_required))]

\* Resource.add_method: the resource after the insertion
add_method(resource, method_type, authorization_type, api_key_required) ==
    [resource EXCEPT !.resource_methods =
        Put(@, method_type,
            Method(method_type, authorization_type, api_key_required))]


\* Resource.add_integration that keeps the integration responses of the
\* integration it replaces
add_integration_keep_responses(resource, method_type, integration_type, uri, request_templates) ==
    LET method == resource.resource_methods[method_type]
        fresh  == Integration(integration_type, uri, method_type,
                              request_templates)
        kept   == IF /\ "methodIntegration" \in DOMAIN method
                     /\ method.methodIntegration # NoneObj
                    THEN [fresh EXCEPT !.integrationResponses =
                             method.methodIntegration.integrationResponses]
                    ELSE fresh
    IN  [resource EXCEPT !.resource_methods[method_type] =
            Put(@, "methodIntegration", kept)]

\* Resource.add_integration, for a method that is present: the resource
\* after the assignment
add_integration(resource, method_type, integration_type, uri, request_templates) ==
    [resource EXCEPT !.resource_methods[method_type] =
        Put(@, "methodIntegration",
            Integration(integration_type, uri, method_type,
                        request_templates))]

(***************************************************************************)
(* APIGatewayBackend: methods and integrations.                            *)
(***************************************************************************)
\* moto.sts.models.ACCOUNT_ID
ACCOUNT_ID == "123456789012"

\* what APIGatewayBackend.get_resource raises, OK when it returns
get_resource_error(function_id, resource_id) ==
    IF RestAPINotFound(function_id) THEN "RestAPINotFound"
    ELSE IF resource_id \notin ResourceIds(apis[function_id].resources)
      THEN KeyError
    ELSE OK

\* APIGatewayBackend.get_resource, when it returns
get_resource(function_id, resource_id) ==
    ResourceAt(apis[function_id].resources, resource_id)

\* the backend after resource r of API function_id was modified in place
WithResource(function_id, r) ==
    [apis EXCEPT ![function_id].resources = PutResource(@, r)]

\* the characters urlparse accepts in a scheme
SchemeChars == Lower \cup Upper \cup Digit \cup {"+", "-", "."}

\* urlparse(uri).scheme: the characters before the first ":", when the
\* first is a letter and all are scheme characters
UrlScheme(uri) ==
    LET i == Find(uri, ":")
    IN  IF /\ i > 1
           /\ Char(uri, 1) \in Lower \cup Upper
           /\ Run(uri, 1, SchemeChars) >= i - 1
          THEN SubSeq(uri, 1, i - 1)
          ELSE ""

\* what urlparse leaves of uri after the scheme and its ":"
UrlAfterScheme(uri) ==
    LET scheme == UrlScheme(uri)
    IN  IF scheme = "" THEN uri ELSE SubSeq(uri, Len(scheme) + 2, Len(uri))

\* urlparse(uri).netloc: after "//", the characters before the next "/",
\* "?" or "#"
UrlNetloc(uri) ==
    LET rest == UrlAfterScheme(uri)
    IN  IF StartsWith(rest, "//")
          THEN SubSeq(rest, 3, 2 + RunUntil(rest, 3, {"/", "?", "#"}))
          ELSE ""

\* urlparse(uri).path: what follows the netloc, up to the first "?" or "#"
UrlPath(uri) ==
    LET rest  == UrlAfterScheme(uri)
        start == IF StartsWith(rest, "//")
                   THEN 3 + RunUntil(rest, 3, {"/", "?", "#"})
                   ELSE 1
    IN  SubSeq(rest, start, start - 1 + RunUntil(rest, start, {"?", "#"}))

\* urlparse raises ValueError for a netloc with an unmatched bracket
UrlRaises(uri) ==
    Contains(UrlNetloc(uri), "[") # Contains(UrlNetloc(uri), "]")


\* a validator that accepts every URI with a path
_uri_validator_path_only(uri) ==
    IF UrlRaises(uri) THEN FALSE
    ELSE UrlPath(uri) # ""

\* APIGatewayBackend._uri_validator
_uri_validator(uri) ==
    IF UrlRaises(uri) THEN FALSE
    ELSE UrlScheme(uri) # "" /\ UrlNetloc(uri) # "" /\ UrlPath(uri) # ""

\* re.match("^arn:aws:iam::" + str(ACCOUNT_ID), credentials)
MatchesAccountArn(credentials) ==
    StartsWith(credentials, "arn:aws:iam::" \o ACCOUNT_ID)


\* a match of every ARN that names S3, "arn:aws:s3:::bucket" included
MatchesS3Arn_plain_s3(uri) ==
    StartsWith(uri, "arn:aws:") /\ Contains(uri, ":s3")

\* re.match("^arn:aws:apigateway:[a-zA-Z0-9-]+:s3", uri)
MatchesS3Arn(uri) ==
    LET n == Run(uri, 20, AlnumDash)
    IN  /\ StartsWith(uri, "arn:aws:apigateway:")
        /\ n >= 1
        /\ SubSeq(uri, 20 + n, 22 + n) = ":s3"

\* re.match("^arn:aws:", uri)
MatchesArn(uri) == StartsWith(uri, "arn:aws:")

\* re.match("^arn:aws:apigateway:[a-zA-Z0-9-]+:[a-zA-Z0-9-]+:(path|action)/",
\*          uri)
MatchesIntegrationArn(uri) ==
    LET n1 == Run(uri, 20, AlnumDash)
        p2 == 20 + n1 + 1
        n2 == Run(uri, p2, AlnumDash)
        p3 == p2 + n2 + 1
    IN  /\ StartsWith(uri, "arn:aws:apigateway:")
        /\ n1 >= 1
        /\ Char(uri, 20 + n1) = ":"
        /\ n2 >= 1
        /\ Char(uri, p2 + n2) = ":"
        /\ \/ SubSeq(uri, p3, p3 + 4) = "path/"
           \/ SubSeq(uri, p3, p3 + 6) = "action/"


\* the validation with the check of the backend HTTP method made before
\* the check of the credentials
create_integration_checks_method_first(integration_type, uri, integration_method, credentials) ==
    IF /\ ~Truthy(integration_method)
       /\ integration_type \in {"HTTP", "HTTP_PROXY", "AWS", "AWS_PROXY"}
      THEN "IntegrationMethodNotDefined"
    ELSE IF Truthy(credentials) /\ ~MatchesAccountArn(credentials)
      THEN "CrossAccountNotAllowed"
    ELSE IF integration_type \in {"AWS_PROXY"} /\ MatchesS3Arn(uri)
      THEN "AwsProxyNotAllowed"
    ELSE IF /\ integration_type \in {"AWS"}
            /\ MatchesS3Arn(uri)
            /\ ~Truthy(credentials)
      THEN "RoleNotSpecified"
    ELSE IF integration_type \in {"HTTP", "HTTP_PROXY"} /\ ~_uri_validator(uri)
      THEN "InvalidHttpEndpoint"
    ELSE IF integration_type \in {"AWS", "AWS_PROXY"} /\ ~MatchesArn(uri)
      THEN "InvalidArn"
    ELSE IF /\ integration_type \in {"AWS", "AWS_PROXY"}
            /\ ~MatchesIntegrationArn(uri)
      THEN "InvalidIntegrationArn"
    ELSE OK

\* the validation of APIGatewayBackend.create_integration: the error it
\* raises, OK when every check passes
create_integration_checks(integration_type, uri, integration_method, credentials) ==
    IF Truthy(credentials) /\ ~MatchesAccountArn(credentials)
      THEN "CrossAccountNotAllowed"
    ELSE IF /\ ~Truthy(integration_method)
            /\ integration_type \in {"HTTP", "HTTP_PROXY", "AWS", "AWS_PROXY"}
      THEN "IntegrationMethodNotDefined"
    ELSE IF integration_type \in {"AWS_PROXY"} /\ MatchesS3Arn(uri)
      THEN "AwsProxyNotAllowed"
    ELSE IF /\ integration_type \in {"AWS"}
            /\ MatchesS3Arn(uri)
            /\ ~Truthy(credentials)
      THEN "RoleNotSpecified"
    ELSE IF integration_type \in {"HTTP", "HTTP_PROXY"} /\ ~_uri_validator(uri)
      THEN "InvalidHttpEndpoint"
    ELSE IF integration_type \in {"AWS", "AWS_PROXY"} /\ ~MatchesArn(uri)
      THEN "InvalidArn"
    ELSE IF /\ integration_type \in {"AWS", "AWS_PROXY"}
            /\ ~MatchesIntegrationArn(uri)
      THEN "InvalidIntegrationArn"
    ELSE OK

\* the outcome of APIGatewayBackend.create_integration
create_integration_result(function_id, resource_id, method_type, integration_type, uri, integration_method, credentials) ==
    LET checks == create_integration_checks(integration_type, uri,
                                            integration_method, credentials)
    IN  IF get_resource_error(function_id, resource_id) # OK
          THEN get_resource_error(function_id, resource_id)
        ELSE IF checks # OK THEN checks
        ELSE IF method_type \notin
                  DOMAIN get_resource(function_id, resource_id).resource_methods
          THEN KeyError
        ELSE OK

\* APIGatewayBackend.create_method
create_method(function_id, resource_id, method_type, authorization_type, api_key_required) ==
    LET args == <<function_id, resource_id, method_type, authorization_type,
                  api_key_required>>
        err  == get_resource_error(function_id, resource_id)
    IN  IF err # OK
          THEN /\ last' = Call("create_method", args, err, None)
               /\ UNCHANGED <<apis, nextId, keyVars>>
          ELSE /\ apis' = WithResource(function_id,
                              add_method(get_resource(function_id, resource_id),
                                         method_type, authorization_type,
                                         api_key_required))
               /\ last' = Call("create_method", args, OK, method_type)
               /\ UNCHANGED <<nextId, keyVars>>

\* APIGatewayBackend.create_method_response and Method.create_response; a
\* MethodResponse is the dictionary of its status code
create_method_response(function_id, resource_id, method_type, response_code) ==
    LET args == <<function_id, resource_id, method_type, response_code>>
        err  == get_resource_error(function_id, resource_id)
    IN  IF err # OK
          THEN /\ last' = Call("create_method_response", args, err, None)
               /\ UNCHANGED <<apis, nextId, keyVars>>
        ELSE IF method_type \notin
                  DOMAIN get_resource(function_id, resource_id).resource_methods
          THEN /\ last' = Call("create_method_response", args, KeyError, None)
               /\ UNCHANGED <<apis, nextId, keyVars>>
        ELSE /\ apis' = WithResource(function_id,
                            [get_resource(function_id, resource_id) EXCEPT
                                !.resource_methods[method_type].method_responses =
                                    Put(@, response_code,
                                        [statusCode |-> response_code])])
             /\ last' = Call("create_method_response", args, OK, response_code)
             /\ UNCHANGED <<nextId, keyVars>>

\* APIGatewayBackend.create_integration
create_integration(function_id, resource_id, method_type, integration_type, uri, integration_method, credentials, request_templates) ==
    LET args   == [function_id |-> function_id, resource_id |-> resource_id,
                   method_type |-> method_type,
                   integration_type |-> integration_type, uri |-> uri,
                   integration_method |-> integration_method,
                   credentials |-> credentials,
                   request_templates |-> request_templates]
        result == create_integration_result(function_id, resource_id,
                      method_type, integration_type, uri, integration_method,
                      credentials)
    IN  IF result # OK
          THEN /\ last' = Call("create_integration", args, result, None)
               /\ UNCHANGED <<apis, nextId, keyVars>>
          ELSE /\ apis' = WithResource(function_id,
                              add_integration(
                                  get_resource(function_id, resource_id),
                                  method_type, integration_type, uri,
                                  request_templates))
               /\ last' = Call("create_integration", args, OK, method_type)
               /\ UNCHANGED <<nextId, keyVars>>

\* APIGatewayBackend.delete_integration and Resource.delete_integration
delete_integration(function_id, resource_id, method_type) ==
    LET args == <<function_id, resource_id, method_type>>
        err  == get_resource_error(function_id, resource_id)
    IN  IF err # OK
          THEN /\ last' = Call("delete_integration", args, err, None)
               /\ UNCHANGED <<apis, nextId, keyVars>>
        ELSE IF \/ method_type \notin
                     DOMAIN get_resource(function_id, resource_id).resource_methods
                \/ "methodIntegration" \notin
                     DOMAIN get_resource(function_id, resource_id)
                              .resource_methods[method_type]
          THEN /\ last' = Call("delete_integration", args, KeyError, None)
               /\ UNCHANGED <<apis, nextId, keyVars>>
        ELSE /\ apis' = WithResource(function_id,
                            [get_resource(function_id, resource_id) EXCEPT
                                !.resource_methods[method_type] =
                                    Drop(@, "methodIntegration")])
             /\ last' = Call("delete_integration", args, OK, method_type)
             /\ UNCHANGED <<nextId, keyVars>>

\* what APIGatewayBackend.get_integration raises, OK when it returns; a
\* method whose methodIntegration is None is returned as None
get_integration_error(function_id, resource_id, method_type) ==
    IF get_resource_error(function_id, resource_id) # OK
      THEN get_resource_error(function_id, resource_id)
    ELSE IF method_type \notin
              DOMAIN get_resource(function_id, resource_id).resource_methods
      THEN KeyError
    ELSE IF "methodIntegration" \notin
              DOMAIN get_resource(function_id, resource_id)
                       .resource_methods[method_type]
      THEN KeyError
    ELSE OK

\* APIGatewayBackend.get_integration, when it returns
get_integration(function_id, resource_id, method_type) ==
    get_resource(function_id, resource_id)
        .resource_methods[method_type].methodIntegration

\* Integration.create_integration_response: the integration after the
\* insertion
Integration_create_integration_response(integration, status_code, selection_pattern, response_templates, content_handling) ==
    [integration EXCEPT !.integrationResponses =
        Put(@, status_code,
            IntegrationResponse(status_code, selection_pattern,
                IF response_templates = EmptyDict
                  THEN NoneObj ELSE response_templates,
                content_handling))]

\* APIGatewayBackend.create_integration_response; on a method whose
\* methodIntegration is None the call of the method on None raises
\* AttributeError
create_integration_response(function_id, resource_id, method_type, status_code, selection_pattern, response_templates, content_handling) ==
    LET args == <<function_id, resource_id, method_type, status_code>>
        err  == get_integration_error(function_id, resource_id, method_type)
    IN  IF response_templates = NoneObj
          THEN /\ last' = Call("create_integration_response", args,
                               "InvalidRequestInput", None)
               /\ UNCHANGED <<apis, nextId, keyVars>>
        ELSE IF err # OK
          THEN /\ last' = Call("create_integration_response", args, err, None)
               /\ UNCHANGED <<apis, nextId, keyVars>>
        ELSE IF get_integration(function_id, resource_id, method_type) = NoneObj
          THEN /\ last' = Call("create_integration_response", args,
                               "AttributeError", None)
               /\ UNCHANGED <<apis, nextId, keyVars>>
        ELSE /\ apis' = WithResource(function_id,
                            [get_resource(function_id, resource_id) EXCEPT
                                !.resource_methods[method_type].methodIntegration =
                                    Integration_create_integration_response(
                                        @, status_code, selection_pattern,
                                        response_templates, content_handling)])
             /\ last' = Call("create_integration_response", args, OK,
                             status_code)
             /\ UNCHANGED <<nextId, keyVars>>

(***************************************************************************)
(* Numbers in patch values.                                                *)
(***************************************************************************)
ValueError == "ValueError"

DigitValue(c) ==
    CASE c = "0" -> 0 [] c = "1" -> 1 [] c = "2" -> 2 [] c = "3" -> 3
      [] c = "4" -> 4 [] c = "5" -> 5 [] c = "6" -> 6 [] c = "7" -> 7
      [] c = "8" -> 8 [] c = "9" -> 9

IsDigits(s) == Len(s) >= 1 /\ \A i \in 1..Len(s) : Char(s, i) \in Digit

\* the number a string of digits denotes
RECURSIVE DigitsValue(_)
DigitsValue(s) ==
    IF s = "" THEN 0
    ELSE 10 * DigitsValue(SubSeq(s, 1, Len(s) - 1)) + DigitValue(Char(s, Len(s)))

\* s without its trailing zeros
RECURSIVE StripZeros(_)
StripZeros(s) ==
    IF s # "" /\ Char(s, Len(s)) = "0"
      THEN StripZeros(SubSeq(s, 1, Len(s) - 1)) ELSE s

\* int(val) for a string: ValueError unless val is a string of digits
PyInt(val) == IF IsDigits(val) THEN DigitsValue(val) ELSE ValueError

\* float(val) for a string of the form digits or digits.digits, ValueError
\* for the other strings of the model; a float is its integer part and its
\* fraction digits
PyFloat(val) ==
    LET dot == Find(val, ".")
    IN  IF IsDigits(val) THEN [int |-> DigitsValue(val), frac |-> ""]
        ELSE IF /\ dot > 1
                /\ IsDigits(SubSeq(val, 1, dot - 1))
                /\ IsDigits(SubSeq(val, dot + 1, Len(val)))
          THEN [int |-> DigitsValue(SubSeq(val, 1, dot - 1)),
                frac |-> StripZeros(SubSeq(val, dot + 1, Len(val)))]
        ELSE [int |-> 0, frac |-> ValueError]

\* str(f) for a float
FloatStr(f) == ToString(f.int) \o "." \o (IF f.frac = "" THEN "0" ELSE f.frac)

LowerOf(c) ==
    CASE c = "A" -> "a" [] c = "B" -> "b" [] c = "C" -> "c" [] c = "D" -> "d"
      [] c = "E" -> "e" [] c = "F" -> "f" [] c = "G" -> "g" [] c = "H" -> "h"
      [] c = "I" -> "i" [] c = "J" -> "j" [] c = "K" -> "k" [] c = "L" -> "l"
      [] c = "M" -> "m" [] c = "N" -> "n" [] c = "O" -> "o" [] c = "P" -> "p"
      [] c = "Q" -> "q" [] c = "R" -> "r" [] c = "S" -> "s" [] c = "T" -> "t"
      [] c = "U" -> "u" [] c = "V" -> "v" [] c = "W" -> "w" [] c = "X" -> "x"
      [] c = "Y" -> "y" [] c = "Z" -> "z" [] OTHER -> c

\* s.lower()
RECURSIVE StrLower(_)
StrLower(s) ==
    IF s = "" THEN "" ELSE LowerOf(Char(s, 1)) \o StrLower(SubSeq(s, 2, Len(s)))

(***************************************************************************)
(* Deployment and Stage.                                                   *)
(***************************************************************************)
\* Deployment.__init__; now is the reading of time.time()
Deployment(deployment_id, name, description, now) ==
    [id |-> deployment_id, stageName |-> name, description |-> description,
     createdDate |-> now]

\* Stage.__init__
Stage(name, deployment_id, variables, description, cacheClusterEnabled, cacheClusterSize) ==
    LET base == [stageName |-> name,
                 deploymentId |-> deployment_id,
                 methodSettings |-> EmptyDict,
                 variables |-> IF variables = NoneObj THEN EmptyDict
                               ELSE variables,
                 description |-> description,
                 cacheClusterEnabled |-> cacheClusterEnabled]
        sized == IF Truthy(cacheClusterEnabled)
                   THEN Put(base, "cacheClusterSize", "0.5")
                   ELSE base
    IN  IF cacheClusterSize # None
          THEN Put(sized, "cacheClusterSize", cacheClusterSize)
          ELSE sized


\* a conversion that accepts only the lower-case spelling
_str2bool_exact(v) == IF v = "true" THEN PyTrue ELSE PyFalse

\* Stage._str2bool
_str2bool(v) == IF StrLower(v) = "true" THEN PyTrue ELSE PyFalse

\* Stage._get_default_method_settings
_get_default_method_settings ==
    [throttlingRateLimit |-> [int |-> 1000, frac |-> ""],
     dataTraceEnabled |-> PyFalse,
     metricsEnabled |-> PyFalse,
     unauthorizedCacheControlHeaderStrategy |-> "SUCCEED_WITH_RESPONSE_HEADER",
     cacheTtlInSeconds |-> 300,
     cacheDataEncrypted |-> PyTrue,
     cachingEnabled |-> PyFalse,
     throttlingBurstLimit |-> 2000,
     requireAuthorizationForCacheControl |-> PyTrue]

\* the mappings of Stage._method_settings_translations
SettingTranslations ==
    [x \in {"metrics/enabled", "logging/loglevel", "logging/dataTrace",
            "throttling/burstLimit", "throttling/rateLimit", "caching/enabled",
            "caching/ttlInSeconds", "caching/dataEncrypted",
            "caching/requireAuthorizationForCacheControl",
            "caching/unauthorizedCacheControlHeaderStrategy"} |->
        CASE x = "metrics/enabled" -> "metricsEnabled"
          [] x = "logging/loglevel" -> "loggingLevel"
          [] x = "logging/dataTrace" -> "dataTraceEnabled"
          [] x = "throttling/burstLimit" -> "throttlingBurstLimit"
          [] x = "throttling/rateLimit" -> "throttlingRateLimit"
          [] x = "caching/enabled" -> "cachingEnabled"
          [] x = "caching/ttlInSeconds" -> "cacheTtlInSeconds"
          [] x = "caching/dataEncrypted" -> "cacheDataEncrypted"
          [] x = "caching/requireAuthorizationForCacheControl" ->
                "requireAuthorizationForCacheControl"
          [] x = "caching/unauthorizedCacheControlHeaderStrategy" ->
                "unauthorizedCacheControlHeaderStrategy"]


\* a translation that keeps the names it does not know
_method_settings_translations_passthrough(key) ==
    IF key \in DOMAIN SettingTranslations THEN SettingTranslations[key]
    ELSE key

\* Stage._method_settings_translations
_method_settings_translations(key) ==
    IF key \in DOMAIN SettingTranslations THEN SettingTranslations[key]
    ELSE None

\* the type_mappings of Stage._convert_to_type
SettingType(key) ==
    CASE key \in {"metricsEnabled", "dataTraceEnabled", "cachingEnabled",
                  "cacheDataEncrypted", "requireAuthorizationForCacheControl"}
           -> "bool"
      [] key \in {"throttlingBurstLimit", "cacheTtlInSeconds"} -> "int"
      [] key = "throttlingRateLimit" -> "float"
      [] OTHER -> "str"

\* Stage._convert_to_type
_convert_to_type(key, val) ==
    CASE SettingType(key) = "bool" -> _str2bool(val)
      [] SettingType(key) = "int" -> PyInt(val)
      [] SettingType(key) = "float" -> PyFloat(val)
      [] OTHER -> val

\* whether Stage._convert_to_type raises ValueError
ConvertRaises(key, val) ==
    \/ SettingType(key) = "int" /\ ~IsDigits(val)
    \/ SettingType(key) = "float" /\ PyFloat(val).frac = ValueError


\* a patch that starts from the default settings every time
_patch_method_setting_reset(stage, resource_path_and_method, key, value) ==
    LET updated_key == _method_settings_translations(key)
        settings == Put(stage.methodSettings, resource_path_and_method,
                        _get_default_method_settings)
    IN  IF updated_key = None THEN [stage |-> stage, result |-> OK]
        ELSE IF ConvertRaises(updated_key, value)
          THEN [stage |-> [stage EXCEPT !.methodSettings = settings],
                result |-> ValueError]
        ELSE [stage |->
                [stage EXCEPT !.methodSettings =
                    Put(settings, resource_path_and_method,
                        Put(settings[resource_path_and_method], updated_key,
                            _convert_to_type(updated_key, value)))],
              result |-> OK]

\* Stage._patch_method_setting: the stage after the patch, and its outcome
_patch_method_setting(stage, resource_path_and_method, key, value) ==
    LET updated_key == _method_settings_translations(key)
        settings ==
            IF resource_path_and_method \in DOMAIN stage.methodSettings
              THEN stage.methodSettings
              ELSE Put(stage.methodSettings, resource_path_and_method,
                       _get_default_method_settings)
    IN  IF updated_key = None THEN [stage |-> stage, result |-> OK]
        ELSE IF ConvertRaises(updated_key, value)
          THEN [stage |-> [stage EXCEPT !.methodSettings = settings],
                result |-> ValueError]
        ELSE [stage |->
                [stage EXCEPT !.methodSettings =
                    Put(settings, resource_path_and_method,
                        Put(settings[resource_path_and_method], updated_key,
                            _convert_to_type(updated_key, value)))],
              result |-> OK]

\* s.rindex(sub), 1-based, for a sub that occurs in s
RIndex(s, sub) ==
    CHOOSE i \in 1..(Len(s) - Len(sub) + 1) :
        /\ SubSeq(s, i, i + Len(sub) - 1) = sub
        /\ \A j \in (i + 1)..(Len(s) - Len(sub) + 1) :
              SubSeq(s, j, j + Len(sub) - 1) # sub

PatchException == "Exception"


\* a variables handler whose remove raises for a key that is absent
_apply_operation_to_variables_strict(stage, op) ==
    LET key == SubSeq(op.path, RIndex(op.path, "variables/") + 10, Len(op.path))
    IN  IF op.op = "remove"
          THEN IF key \in DOMAIN stage.variables
                 THEN [stage |-> [stage EXCEPT !.variables = Drop(@, key)],
                       result |-> OK]
                 ELSE [stage |-> stage, result |-> KeyError]
        ELSE IF op.op = "replace"
          THEN [stage |-> [stage EXCEPT !.variables = Put(@, key, op.value)],
                result |-> OK]
        ELSE [stage |-> stage, result |-> PatchException]

\* Stage._apply_operation_to_variables
_apply_operation_to_variables(stage, op) ==
    LET key == SubSeq(op.path, RIndex(op.path, "variables/") + 10, Len(op.path))
    IN  IF op.op = "remove"
          THEN [stage |-> [stage EXCEPT !.variables =
                              Drop(@, key)],
                result |-> OK]
        ELSE IF op.op = "replace"
          THEN [stage |-> [stage EXCEPT !.variables = Put(@, key, op.value)],
                result |-> OK]
        ELSE [stage |-> stage, result |-> PatchException]

\* path.split("/", 3): at most three splits, the rest kept whole
SplitPath3(path) ==
    LET i1 == Find(path, "/")
        r1 == SubSeq(path, i1 + 1, Len(path))
        i2 == Find(r1, "/")
        r2 == SubSeq(r1, i2 + 1, Len(r1))
        i3 == Find(r2, "/")
        r3 == SubSeq(r2, i3 + 1, Len(r2))
    IN  IF i1 = 0 THEN <<path>>
        ELSE IF i2 = 0 THEN <<SubSeq(path, 1, i1 - 1), r1>>
        ELSE IF i3 = 0 THEN <<SubSeq(path, 1, i1 - 1), SubSeq(r1, 1, i2 - 1), r2>>
        ELSE <<SubSeq(path, 1, i1 - 1), SubSeq(r1, 1, i2 - 1),
               SubSeq(r2, 1, i3 - 1), r3>>


\* one turn of the loop of Stage.apply_operations
apply_operation(stage, op) ==
    IF Contains(op.path, "variables/")
      THEN _apply_operation_to_variables(stage, op)
    ELSE IF Contains(op.path, "/cacheClusterEnabled")
      THEN LET enabled == [stage EXCEPT !.cacheClusterEnabled =
                              _str2bool(op.value)]
           IN  [stage |->
                   IF /\ "cacheClusterSize" \notin DOMAIN enabled
                      /\ Truthy(enabled.cacheClusterEnabled)
                     THEN Put(enabled, "cacheClusterSize", "0.5")
                     ELSE enabled,
                result |-> OK]
    ELSE IF Contains(op.path, "/cacheClusterSize")
      THEN IF PyFloat(op.value).frac = ValueError
             THEN [stage |-> stage, result |-> ValueError]
             ELSE [stage |-> Put(stage, "cacheClusterSize",
                                 FloatStr(PyFloat(op.value))),
                   result |-> OK]
    ELSE IF Contains(op.path, "/description")
      THEN [stage |-> [stage EXCEPT !.description = op.value], result |-> OK]
    ELSE IF Contains(op.path, "/deploymentId")
      THEN [stage |-> [stage EXCEPT !.deploymentId = op.value], result |-> OK]
    ELSE IF op.op = "replace"
      THEN LET split_path == SplitPath3(op.path)
           IN  IF Len(split_path) # 4 THEN [stage |-> stage, result |-> OK]
               ELSE _patch_method_setting(stage,
                        split_path[2] \o "/" \o split_path[3],
                        split_path[4], op.value)
    ELSE [stage |-> stage, result |-> PatchException]

\* a batch that undoes the operations it applied when one of them raises
RECURSIVE apply_operations_from(_, _, _)
apply_operations_from(original, stage, patch_operations) ==
    IF patch_operations = <<>> THEN [stage |-> stage, result |-> OK]
    ELSE LET step == apply_operation(stage, Head(patch_operations))
         IN  IF step.result # OK
               THEN [stage |-> original, result |-> step.result]
               ELSE apply_operations_from(original, step.stage,
                                          Tail(patch_operations))

\* Stage.apply_operations made atomic
apply_operations_atomic(stage, patch_operations) ==
    apply_operations_from(stage, stage, patch_operations)

\* Stage.apply_operations: the stage as the batch leaves it, and OK or the
\* exception that ended the batch
RECURSIVE apply_operations(_, _)
apply_operations(stage, patch_operations) ==
    IF patch_operations = <<>> THEN [stage |-> stage, result |-> OK]
    ELSE LET step == apply_operation(stage, Head(patch_operations))
         IN  IF step.result # OK THEN step
             ELSE apply_operations(step.stage, Tail(patch_operations))

\* RestAPI.create_stage: the API after the call
RestAPI_create_stage(api, name, deployment_id, variables, description, cacheClusterEnabled, cacheClusterSize) ==
    [api EXCEPT !.stages =
        Put(@, name, Stage(name, deployment_id, variables, description,
                           cacheClusterEnabled, cacheClusterSize))]

\* RestAPI.create_deployment that re-points a stage of that name instead of
\* replacing it
RestAPI_create_deployment_keep_stage(api, deployment_id, name, description, stage_variables, now) ==
    [api EXCEPT
        !.deployments =
            Put(@, deployment_id,
                Deployment(deployment_id, name, description, now)),
        !.stages =
            IF name \in DOMAIN @
              THEN [@ EXCEPT ![name].deploymentId = deployment_id]
              ELSE Put(@, name, Stage(name, deployment_id, stage_variables, "",
                                      PyFalse, None))]

\* RestAPI.create_deployment: the API after the call
RestAPI_create_deployment(api, deployment_id, name, description, stage_variables, now) ==
    [api EXCEPT
        !.deployments =
            Put(@, deployment_id,
                Deployment(deployment_id, name, description, now)),
        !.stages =
            Put(@, name, Stage(name, deployment_id, stage_variables, "",
                               PyFalse, None))]

(***************************************************************************)
(* APIGatewayBackend: deployments and stages.                              *)
(***************************************************************************)
\* the list that APIGatewayBackend.create_deployment calls methods: the
\* methods of the first resource of the mapping
DeploymentMethods(api) ==
    {api.resources[1].resource_methods[m] :
        m \in DOMAIN api.resources[1].resource_methods}

\* create_deployment_result without the test for integrations
create_deployment_result_methods_only(function_id) ==
    IF RestAPINotFound(function_id) THEN "RestAPINotFound"
    ELSE IF apis[function_id].resources = <<>> THEN "IndexError"
    ELSE IF DeploymentMethods(apis[function_id]) = {} THEN "NoMethodDefined"
    ELSE OK

\* the outcome of APIGatewayBackend.create_deployment
create_deployment_result(function_id) ==
    IF RestAPINotFound(function_id) THEN "RestAPINotFound"
    ELSE IF apis[function_id].resources = <<>> THEN "IndexError"
    ELSE IF DeploymentMethods(apis[function_id]) = {} THEN "NoMethodDefined"
    ELSE IF \A method \in DeploymentMethods(apis[function_id]) :
               \/ "methodIntegration" \notin DOMAIN method
               \/ method.methodIntegration = NoneObj
      THEN "NoIntegrationDefined"
    ELSE OK

\* create_deployment that makes the deployment and its stage before it
\* examines the methods
create_deployment_commit_first(function_id, name, description, stage_variables, now) ==
    LET args   == [function_id |-> function_id, name |-> name,
                   stage_variables |-> stage_variables]
        result == create_deployment_result(function_id)
    IN  IF result \in {"RestAPINotFound", "IndexError"}
          THEN /\ last' = Call("create_deployment", args, result, None)
               /\ UNCHANGED <<apis, nextId, keyVars>>
          ELSE /\ nextId <= MaxIds
               /\ Cardinality(DOMAIN apis[function_id].deployments)
                     < MaxDeployments
               /\ apis' = [apis EXCEPT ![function_id] =
                              RestAPI_create_deployment(@, create_id, name,
                                  description, stage_variables, now)]
               /\ nextId' = nextId + 1
               /\ UNCHANGED keyVars
               /\ last' = Call("create_deployment", args, result,
                               IF result = OK
                                 THEN Deployment(create_id, name, description, now)
                                 ELSE None)

\* APIGatewayBackend.create_deployment
create_deployment(function_id, name, description, stage_variables, now) ==
    LET args   == [function_id |-> function_id, name |-> name,
                   stage_variables |-> stage_variables]
        result == create_deployment_result(function_id)
    IN  IF result # OK
          THEN /\ last' = Call("create_deployment", args, result, None)
               /\ UNCHANGED <<apis, nextId, keyVars>>
          ELSE /\ nextId <= MaxIds
               /\ Cardinality(DOMAIN apis[function_id].deployments)
                     < MaxDeployments
               /\ apis' = [apis EXCEPT ![function_id] =
                              RestAPI_create_deployment(@, create_id, name,
                                  description, stage_variables, now)]
               /\ nextId' = nextId + 1
               /\ UNCHANGED keyVars
               /\ last' = Call("create_deployment", args, OK,
                               Deployment(create_id, name, description, now))

\* APIGatewayBackend.get_deployment: the deployment, or the exception
get_deployment(function_id, deployment_id) ==
    IF RestAPINotFound(function_id) THEN [error |-> "RestAPINotFound"]
    ELSE IF deployment_id \notin DOMAIN apis[function_id].deployments
      THEN [error |-> KeyError]
    ELSE apis[function_id].deployments[deployment_id]

\* APIGatewayBackend.delete_deployment
delete_deployment(function_id, deployment_id) ==
    LET args == <<function_id, deployment_id>>
    IN  IF RestAPINotFound(function_id)
          THEN /\ last' = Call("delete_deployment", args, "RestAPINotFound", None)
               /\ UNCHANGED <<apis, nextId, keyVars>>
        ELSE IF deployment_id \notin DOMAIN apis[function_id].deployments
          THEN /\ last' = Call("delete_deployment", args, KeyError, None)
               /\ UNCHANGED <<apis, nextId, keyVars>>
        ELSE /\ apis' = [apis EXCEPT ![function_id].deployments =
                            Drop(@, deployment_id)]
             /\ last' = Call("delete_deployment", args, OK, deployment_id)
             /\ UNCHANGED <<nextId, keyVars>>

\* what APIGatewayBackend.get_stage raises, OK when it returns
get_stage_error(function_id, stage_name) ==
    IF RestAPINotFound(function_id) THEN "RestAPINotFound"
    ELSE IF stage_name \notin DOMAIN apis[function_id].stages
      THEN "StageNotFoundException"
    ELSE OK

\* APIGatewayBackend.get_stage
get_stage(function_id, stage_name) ==
    /\ last' = Call("get_stage", <<function_id, stage_name>>,
                    get_stage_error(function_id, stage_name),
                    IF get_stage_error(function_id, stage_name) = OK
                      THEN stage_name ELSE None)
    /\ UNCHANGED <<apis, nextId, keyVars>>

\* APIGatewayBackend.create_stage
create_stage(function_id, stage_name, deploymentId, variables, description, cacheClusterEnabled, cacheClusterSize) ==
    LET args == <<function_id, stage_name, deploymentId>>
    IN  IF RestAPINotFound(function_id)
          THEN /\ last' = Call("create_stage", args, "RestAPINotFound", None)
               /\ UNCHANGED <<apis, nextId, keyVars>>
          ELSE /\ apis' = [apis EXCEPT ![function_id] =
                              RestAPI_create_stage(@, stage_name, deploymentId,
                                  variables, description, cacheClusterEnabled,
                                  cacheClusterSize)]
               /\ last' = Call("create_stage", args, OK, stage_name)
               /\ UNCHANGED <<nextId, keyVars>>

\* APIGatewayBackend.update_stage; a batch that raises leaves the stage as
\* the operations before the failing one made it
update_stage(function_id, stage_name, patch_operations) ==
    LET args == <<function_id, stage_name, patch_operations>>
        err  == get_stage_error(function_id, stage_name)
    IN  IF err # OK
          THEN /\ last' = Call("update_stage", args, err, None)
               /\ UNCHANGED <<apis, nextId, keyVars>>
          ELSE LET done == apply_operations(apis[function_id].stages[stage_name],
                                            patch_operations)
               IN  /\ apis' = [apis EXCEPT ![function_id].stages[stage_name] =
                                  done.stage]
                   /\ last' = Call("update_stage", args, done.result, stage_name)
                   /\ UNCHANGED <<nextId, keyVars>>

\* delete_stage that also removes the deployment the stage points at
delete_stage_cascade(function_id, stage_name) ==
    LET args == <<function_id, stage_name>>
    IN  IF RestAPINotFound(function_id)
          THEN /\ last' = Call("delete_stage", args, "RestAPINotFound", None)
               /\ UNCHANGED <<apis, nextId, keyVars>>
        ELSE IF stage_name \notin DOMAIN apis[function_id].stages
          THEN /\ last' = Call("delete_stage", args, KeyError, None)
               /\ UNCHANGED <<apis, nextId, keyVars>>
        ELSE /\ apis' = [apis EXCEPT
                            ![function_id].stages = Drop(@, stage_name),
                            ![function_id].deployments =
                                Drop(@, apis[function_id].stages[stage_name]
                                           .deploymentId)]
             /\ last' = Call("delete_stage", args, OK, stage_name)
             /\ UNCHANGED <<nextId, keyVars>>

\* APIGatewayBackend.delete_stage
delete_stage(function_id, stage_name) ==
    LET args == <<function_id, stage_name>>
    IN  IF RestAPINotFound(function_id)
          THEN /\ last' = Call("delete_stage", args, "RestAPINotFound", None)
               /\ UNCHANGED <<apis, nextId, keyVars>>
        ELSE IF stage_name \notin DOMAIN apis[function_id].stages
          THEN /\ last' = Call("delete_stage", args, KeyError, None)
               /\ UNCHANGED <<apis, nextId, keyVars>>
        ELSE /\ apis' = [apis EXCEPT ![function_id].stages = Drop(@, stage_name)]
             /\ last' = Call("delete_stage", args, OK, stage_name)
             /\ UNCHANGED <<nextId, keyVars>>

(***************************************************************************)
(* Authorizer.                                                             *)
(***************************************************************************)
\* d with d[k] = v when v is truthy, d otherwise
PutIfTruthy(d, k, v) == IF Truthy(v) THEN Put(d, k, v) ELSE d

\* kwargs.get(k)
KwargsGet(kwargs, k) == IF k \in DOMAIN kwargs THEN kwargs[k] ELSE None

\* Authorizer.__init__; provider_arns is None in every call of the model
Authorizer(id, name, authorizer_type, auth_type, authorizer_uri, authorizer_credentials, identity_source, identity_validation_expression, authorizer_result_ttl) ==
    Put(PutIfTruthy(PutIfTruthy(PutIfTruthy(PutIfTruthy(PutIfTruthy(
            [id |-> id, name |-> name, type |-> authorizer_type],
            "authType", auth_type),
            "authorizerUri", authorizer_uri),
            "authorizerCredentials", authorizer_credentials),
            "identitySource", identity_source),
            "identityValidationExpression", identity_validation_expression),
        "authorizerResultTtlInSeconds", authorizer_result_ttl)

\* one turn of the loop of Authorizer.apply_operations: the authorizer after
\* the operation, and OK or the exception it raises
Authorizer_apply_operation(authorizer, op) ==
    IF Contains(op.path, "/authorizerUri")
      THEN [entity |-> Put(authorizer, "authorizerUri", op.value), result |-> OK]
    ELSE IF Contains(op.path, "/authorizerCredentials")
      THEN [entity |-> Put(authorizer, "authorizerCredentials", op.value),
            result |-> OK]
    ELSE IF Contains(op.path, "/authorizerResultTtlInSeconds")
      THEN IF PyInt(op.value) = ValueError
             THEN [entity |-> authorizer, result |-> ValueError]
             ELSE [entity |-> Put(authorizer, "authorizerResultTtlInSeconds",
                                  PyInt(op.value)),
                   result |-> OK]
    ELSE IF Contains(op.path, "/authType")
      THEN [entity |-> Put(authorizer, "authType", op.value), result |-> OK]
    ELSE IF Contains(op.path, "/identitySource")
      THEN [entity |-> Put(authorizer, "identitySource", op.value), result |-> OK]
    ELSE IF Contains(op.path, "/identityValidationExpression")
      THEN [entity |-> Put(authorizer, "identityValidationExpression", op.value),
            result |-> OK]
    ELSE IF Contains(op.path, "/name")
      THEN [entity |-> Put(authorizer, "name", op.value), result |-> OK]
    ELSE IF Contains(op.path, "/providerARNs")
      THEN [entity |-> authorizer, result |-> PatchException]
    ELSE IF Contains(op.path, "/type")
      THEN [entity |-> Put(authorizer, "type", op.value), result |-> OK]
    ELSE [entity |-> authorizer, result |-> PatchException]

\* Authorizer.apply_operations: the authorizer as the batch leaves it, and
\* OK or the exception that ended the batch
RECURSIVE Authorizer_apply_operations(_, _)
Authorizer_apply_operations(authorizer, patch_operations) ==
    IF patch_operations = <<>> THEN [entity |-> authorizer, result |-> OK]
    ELSE LET step == Authorizer_apply_operation(authorizer, Head(patch_operations))
         IN  IF step.result # OK THEN step
             ELSE Authorizer_apply_operations(step.entity, Tail(patch_operations))

\* RestAPI.create_authorizer: the API after the call; the keyword it passes
\* for the validation expression is not the one Authorizer.__init__ reads
RestAPI_create_authorizer(api, id, name, authorizer_type, auth_type, authorizer_uri, authorizer_credentials, identity_source, identiy_validation_expression, authorizer_result_ttl) ==
    [api EXCEPT !.authorizers =
        Put(@, id, Authorizer(id, name, authorizer_type, auth_type,
                              authorizer_uri, authorizer_credentials,
                              identity_source, None, authorizer_result_ttl))]

\* APIGatewayBackend.create_authorizer; kwargs is the dictionary of the
\* keyword arguments of the call, read with kwargs.get (provider_arns is
\* not given in any call of the model)
create_authorizer(restapi_id, name, authorizer_type, kwargs) ==
    LET args == <<restapi_id, name, authorizer_type, kwargs>>
    IN  IF RestAPINotFound(restapi_id)
          THEN /\ last' = Call("create_authorizer", args, "RestAPINotFound", None)
               /\ UNCHANGED <<apis, nextId, keyVars>>
          ELSE /\ nextId <= MaxIds
               /\ apis' = [apis EXCEPT ![restapi_id] =
                              RestAPI_create_authorizer(@, create_id, name,
                                  authorizer_type,
                                  KwargsGet(kwargs, "auth_type"),
                                  KwargsGet(kwargs, "authorizer_uri"),
                                  KwargsGet(kwargs, "authorizer_credentials"),
                                  KwargsGet(kwargs, "identity_source"),
                                  KwargsGet(kwargs, "identiy_validation_expression"),
                                  KwargsGet(kwargs, "authorizer_result_ttl"))]
               /\ nextId' = nextId + 1
               /\ last' = Call("create_authorizer", args, OK, create_id)
               /\ UNCHANGED keyVars

\* what APIGatewayBackend.get_authorizer raises, OK when it returns
get_authorizer_error(restapi_id, authorizer_id) ==
    IF RestAPINotFound(restapi_id) THEN "RestAPINotFound"
    ELSE IF authorizer_id \notin DOMAIN apis[restapi_id].authorizers
      THEN "AuthorizerNotFoundException"
    ELSE OK

\* APIGatewayBackend.get_authorizer, when it returns
get_authorizer(restapi_id, authorizer_id) ==
    apis[restapi_id].authorizers[authorizer_id]

\* APIGatewayBackend.update_authorizer; a stored authorizer is never empty,
\* so the branch that makes a new one is not taken
update_authorizer(restapi_id, authorizer_id, patch_operations) ==
    LET args == <<restapi_id, authorizer_id, patch_operations>>
        err  == get_authorizer_error(restapi_id, authorizer_id)
    IN  IF err # OK
          THEN /\ last' = Call("update_authorizer", args, err, None)
               /\ UNCHANGED <<apis, nextId, keyVars>>
          ELSE LET done == Authorizer_apply_operations(
                               apis[restapi_id].authorizers[authorizer_id],
                               patch_operations)
               IN  /\ apis' = [apis EXCEPT
                                  ![restapi_id].authorizers[authorizer_id] =
                                      done.entity]
                   /\ last' = Call("update_authorizer", args, done.result,
                                   authorizer_id)
                   /\ UNCHANGED <<nextId, keyVars>>

(***************************************************************************)
(* ApiKey, UsagePlan, UsagePlanKey.                                        *)
(***************************************************************************)
\* payload.get(k)
PayloadGet(payload, k) == IF k \in DOMAIN payload THEN payload[k] ELSE None

\* ApiKey.__init__ for a payload with name and value at most; id is what
\* create_id returns, generated what random.sample returns, now the reading
\* of time.time()
ApiKey(payload, id, generated, now) ==
    [id |-> id,
     value |-> IF Truthy(PayloadGet(payload, "value"))
                 THEN payload.value ELSE generated,
     name |-> PayloadGet(payload, "name"),
     customerId |-> None,
     description |-> None,
     enabled |-> PyFalse,
     createdDate |-> now,
     lastUpdatedDate |-> now,
     stageKeys |-> <<>>,
     tags |-> None]

\* one turn of the loop of ApiKey.update_operations
ApiKey_update_operation(key, op) ==
    IF op.op = "replace"
      THEN IF Contains(op.path, "/name")
             THEN [entity |-> [key EXCEPT !.name = op.value], result |-> OK]
           ELSE IF Contains(op.path, "/customerId")
             THEN [entity |-> [key EXCEPT !.customerId = op.value], result |-> OK]
           ELSE IF Contains(op.path, "/description")
             THEN [entity |-> [key EXCEPT !.description = op.value], result |-> OK]
           ELSE IF Contains(op.path, "/enabled")
             THEN [entity |-> [key EXCEPT !.enabled = _str2bool(op.value)],
                   result |-> OK]
           ELSE [entity |-> key, result |-> OK]
      ELSE [entity |-> key, result |-> PatchException]

\* ApiKey.update_operations: the key as the batch leaves it, and OK or the
\* exception that ended the batch
RECURSIVE ApiKey_update_operations(_, _)
ApiKey_update_operations(key, patch_operations) ==
    IF patch_operations = <<>> THEN [entity |-> key, result |-> OK]
    ELSE LET step == ApiKey_update_operation(key, Head(patch_operations))
         IN  IF step.result # OK THEN step
             ELSE ApiKey_update_operations(step.entity, Tail(patch_operations))

\* UsagePlan.__init__ for a payload with a name at most
UsagePlan(payload, id) ==
    [id |-> id,
     name |-> PayloadGet(payload, "name"),
     description |-> None,
     apiStages |-> <<>>,
     throttle |-> None,
     quota |-> None,
     tags |-> None]

\* UsagePlanKey.__init__
UsagePlanKey(id, type, name, value) ==
    [id |-> id, name |-> name, type |-> type, value |-> value]

(***************************************************************************)
(* APIGatewayBackend: API keys, usage plans and usage plan keys.           *)
(***************************************************************************)
\* APIGatewayBackend.get_apikeys; the order of the list is left out
get_apikeys == {keys[k] : k \in DOMAIN keys}


\* create_apikey without the search for a stored key of that value
create_apikey_unchecked(payload, generated, now) ==
    /\ nextId <= MaxIds
    /\ Cardinality(DOMAIN keys) < MaxKeys
    /\ keys' = Put(keys, create_id, ApiKey(payload, create_id, generated, now))
    /\ nextId' = nextId + 1
    /\ last' = Call("create_apikey", payload, OK, create_id)
    /\ UNCHANGED <<domainVars, apis, usage_plans, usage_plan_keys>>

\* APIGatewayBackend.create_apikey
create_apikey(payload, generated, now) ==
    IF /\ PayloadGet(payload, "value") # None
       /\ \E api_key \in get_apikeys : api_key.value = payload.value
      THEN /\ last' = Call("create_apikey", payload, "ApiKeyAlreadyExists", None)
           /\ UNCHANGED <<domainVars, apis, nextId, keyVars>>
      ELSE /\ nextId <= MaxIds
           /\ Cardinality(DOMAIN keys) < MaxKeys
           /\ keys' = Put(keys, create_id, ApiKey(payload, create_id, generated, now))
           /\ nextId' = nextId + 1
           /\ last' = Call("create_apikey", payload, OK, create_id)
           /\ UNCHANGED <<domainVars, apis, usage_plans, usage_plan_keys>>


\* update_apikey that writes the new name into the usage plan keys of the
\* key as well
update_apikey_propagating(api_key_id, patch_operations) ==
    LET args == <<api_key_id, patch_operations>>
    IN  IF api_key_id \notin DOMAIN keys
          THEN /\ last' = Call("update_apikey", args, KeyError, None)
               /\ UNCHANGED <<domainVars, apis, nextId, keyVars>>
          ELSE LET done == ApiKey_update_operations(keys[api_key_id],
                                                    patch_operations)
               IN  /\ keys' = [keys EXCEPT ![api_key_id] = done.entity]
                   /\ usage_plan_keys' =
                         [p \in DOMAIN usage_plan_keys |->
                             [k \in DOMAIN usage_plan_keys[p] |->
                                 IF k = api_key_id
                                   THEN [usage_plan_keys[p][k] EXCEPT
                                            !.name = done.entity.name]
                                   ELSE usage_plan_keys[p][k]]]
                   /\ last' = Call("update_apikey", args, done.result, api_key_id)
                   /\ UNCHANGED <<domainVars, apis, nextId, usage_plans>>

\* APIGatewayBackend.update_apikey
update_apikey(api_key_id, patch_operations) ==
    LET args == <<api_key_id, patch_operations>>
    IN  IF api_key_id \notin DOMAIN keys
          THEN /\ last' = Call("update_apikey", args, KeyError, None)
               /\ UNCHANGED <<domainVars, apis, nextId, keyVars>>
          ELSE LET done == ApiKey_update_operations(keys[api_key_id],
                                                    patch_operations)
               IN  /\ keys' = [keys EXCEPT ![api_key_id] = done.entity]
                   /\ last' = Call("update_apikey", args, done.result, api_key_id)
                   /\ UNCHANGED <<domainVars, apis, nextId, usage_plans, usage_plan_keys>>

\* APIGatewayBackend.delete_apikey
delete_apikey(api_key_id) ==
    IF api_key_id \notin DOMAIN keys
      THEN /\ last' = Call("delete_apikey", <<api_key_id>>, KeyError, None)
           /\ UNCHANGED <<domainVars, apis, nextId, keyVars>>
      ELSE /\ keys' = Drop(keys, api_key_id)
           /\ last' = Call("delete_apikey", <<api_key_id>>, OK, api_key_id)
           /\ UNCHANGED <<domainVars, apis, nextId, usage_plans, usage_plan_keys>>

\* APIGatewayBackend.create_usage_plan
create_usage_plan(payload) ==
    /\ nextId <= MaxIds
    /\ Cardinality(DOMAIN usage_plans) < MaxPlans
    /\ usage_plans' = Put(usage_plans, create_id, UsagePlan(payload, create_id))
    /\ nextId' = nextId + 1
    /\ last' = Call("create_usage_plan", payload, OK, create_id)
    /\ UNCHANGED <<domainVars, apis, keys, usage_plan_keys>>


\* get_usage_plans that keeps every plan that has some association
get_usage_plans_any_key(api_key_id) ==
    IF api_key_id # None
      THEN {usage_plans[p] : p \in
               {q \in DOMAIN usage_plans :
                   /\ q \in DOMAIN usage_plan_keys
                   /\ DOMAIN usage_plan_keys[q] # {}}}
      ELSE {usage_plans[p] : p \in DOMAIN usage_plans}

\* APIGatewayBackend.get_usage_plans(api_key_id), None for the call without
\* argument; a plan is kept when the association found for it is a
\* non-empty dictionary; the order of the list is left out
get_usage_plans(api_key_id) ==
    IF api_key_id # None
      THEN {usage_plans[p] : p \in
               {q \in DOMAIN usage_plans :
                   /\ q \in DOMAIN usage_plan_keys
                   /\ api_key_id \in DOMAIN usage_plan_keys[q]
                   /\ DOMAIN usage_plan_keys[q][api_key_id] # {}}}
      ELSE {usage_plans[p] : p \in DOMAIN usage_plans}

\* APIGatewayBackend.delete_usage_plan
delete_usage_plan(usage_plan_id) ==
    IF usage_plan_id \notin DOMAIN usage_plans
      THEN /\ last' = Call("delete_usage_plan", <<usage_plan_id>>, KeyError, None)
           /\ UNCHANGED <<domainVars, apis, nextId, keyVars>>
      ELSE /\ usage_plans' = Drop(usage_plans, usage_plan_id)
           /\ last' = Call("delete_usage_plan", <<usage_plan_id>>, OK, usage_plan_id)
           /\ UNCHANGED <<domainVars, apis, nextId, keys, usage_plan_keys>>


\* create_usage_plan_key that records the association of a key it does not
\* find, without name and value
create_usage_plan_key_unchecked(usage_plan_id, payload) ==
    LET args    == <<usage_plan_id, payload.keyId>>
        started == IF usage_plan_id \notin DOMAIN usage_plan_keys
                     THEN Put(usage_plan_keys, usage_plan_id, EmptyDict)
                     ELSE usage_plan_keys
        key_id  == payload.keyId
        name    == IF key_id \in DOMAIN keys THEN keys[key_id].name ELSE None
        value   == IF key_id \in DOMAIN keys THEN keys[key_id].value ELSE None
    IN  /\ usage_plan_keys' =
              [started EXCEPT ![usage_plan_id] =
                  Put(@, key_id,
                      UsagePlanKey(key_id, payload.keyType, name, value))]
        /\ last' = Call("create_usage_plan_key", args, OK, key_id)
        /\ UNCHANGED <<domainVars, apis, nextId, keys, usage_plans>>

\* APIGatewayBackend.create_usage_plan_key: the mapping of the plan is made
\* before the key is looked up
create_usage_plan_key(usage_plan_id, payload) ==
    LET args    == <<usage_plan_id, payload.keyId>>
        started == IF usage_plan_id \notin DOMAIN usage_plan_keys
                     THEN Put(usage_plan_keys, usage_plan_id, EmptyDict)
                     ELSE usage_plan_keys
        key_id  == payload.keyId
    IN  IF key_id \notin DOMAIN keys
          THEN /\ usage_plan_keys' = started
               /\ last' = Call("create_usage_plan_key", args,
                               "ApiKeyNotFoundException", None)
               /\ UNCHANGED <<domainVars, apis, nextId, keys, usage_plans>>
          ELSE /\ usage_plan_keys' =
                     [started EXCEPT ![usage_plan_id] =
                         Put(@, key_id,
                             UsagePlanKey(key_id, payload.keyType,
                                          keys[key_id].name, keys[key_id].value))]
               /\ last' = Call("create_usage_plan_key", args, OK, key_id)
               /\ UNCHANGED <<domainVars, apis, nextId, keys, usage_plans>>

\* APIGatewayBackend.get_usage_plan_keys; the order of the list is left out
get_usage_plan_keys(usage_plan_id) ==
    IF usage_plan_id \notin DOMAIN usage_plan_keys THEN {}
    ELSE {usage_plan_keys[usage_plan_id][k] :
             k \in DOMAIN usage_plan_keys[usage_plan_id]}

\* APIGatewayBackend.delete_usage_plan_key
delete_usage_plan_key(usage_plan_id, key_id) ==
    LET args == <<usage_plan_id, key_id>>
    IN  IF \/ usage_plan_id \notin DOMAIN usage_plan_keys
           \/ key_id \notin DOMAIN usage_plan_keys[usage_plan_id]
          THEN /\ last' = Call("delete_usage_plan_key", args, KeyError, None)
               /\ UNCHANGED <<domainVars, apis, nextId, keyVars>>
          ELSE /\ usage_plan_keys' =
                     [usage_plan_keys EXCEPT ![usage_plan_id] = Drop(@, key_id)]
               /\ last' = Call("delete_usage_plan_key", args, OK, key_id)
               /\ UNCHANGED <<domainVars, apis, nextId, keys, usage_plans>>

(***************************************************************************)
(* APIGatewayBackend: import of an OpenAPI document.                       *)
(***************************************************************************)
\* what api_doc["paths"].items().sort(key=...) and the loop over its result
\* raise: a dict view has no attribute sort under Python 3 (AttributeError);
\* under Python 2 the key function of two parameters is called with one
\* argument, or the loop runs over the None that list.sort returns
\* (TypeError)
SortErrors == {"AttributeError", "TypeError"}

\* what validate_spec, of the library openapi_spec_validator, says of a
\* document: it returns, or raises one of the four exceptions that
\* put_rest_api catches
ValidationOutcomes == {OK, "OpenAPIValidationError"}

\* what APIGatewayBackend.put_rest_api raises; it raises in every case,
\* since the expression of its loop raises sort_error whatever the
\* document has under "paths": the body of the loop and the return are
\* never reached.  api_doc is a dictionary, mode a string; validation is
\* what validate_spec does with the document
put_rest_api_error(api_doc, mode, fail_on_warnings, validation, sort_error) ==
    IF mode \notin {"merge", "overwrite"} THEN "InvalidOpenApiModeException"
    ELSE IF "swagger" \notin DOMAIN api_doc THEN KeyError
    ELSE IF api_doc["swagger"] # None THEN "InvalidOpenApiDocVersionException"
    ELSE IF "openapi" \notin DOMAIN api_doc THEN KeyError
    ELSE IF api_doc["openapi"] # None /\ api_doc["openapi"] = "" THEN "IndexError"
    ELSE IF api_doc["openapi"] # None /\ Char(api_doc["openapi"], 1) # "3"
      THEN "InvalidOpenApiDocVersionException"
    ELSE IF mode = "overwrite" THEN "AttributeError"
    ELSE IF fail_on_warnings = PyTrue /\ validation # OK
      THEN "InvalidOpenAPIDocumentException"
    ELSE IF "paths" \notin DOMAIN api_doc THEN "InvalidOpenAPIDocumentException"
    ELSE sort_error

\* whether put_rest_api has passed the checks of the mode and of the
\* version and runs the statements of the overwrite mode
put_rest_api_overwrites(api_doc, mode) ==
    /\ mode = "overwrite"
    /\ "swagger" \in DOMAIN api_doc /\ api_doc["swagger"] = None
    /\ "openapi" \in DOMAIN api_doc
    /\ \/ api_doc["openapi"] = None
       \/ api_doc["openapi"] # "" /\ Char(api_doc["openapi"], 1) = "3"

\* put_rest_api that runs the statements of the overwrite mode before it
\* checks the version of the document
put_rest_api_clear_first(function_id, api_doc, mode, fail_on_warnings, validation, sort_error) ==
    /\ last' = Call("put_rest_api", <<function_id, api_doc, mode, fail_on_warnings>>,
                    put_rest_api_error(api_doc, mode, fail_on_warnings,
                                       validation, sort_error),
                    None)
    /\ backend_resources' = IF mode = "overwrite" THEN "{}" ELSE backend_resources
    /\ UNCHANGED <<apis, nextId, keys, usage_plans, usage_plan_keys, domain_names>>

\* APIGatewayBackend.put_rest_api: in the overwrite mode it assigns {} to
\* the attribute resources of the backend, not of the REST API, and the
\* call self.add_child of the next line raises AttributeError, the backend
\* having no such method
put_rest_api(function_id, api_doc, mode, fail_on_warnings, validation, sort_error) ==
    /\ last' = Call("put_rest_api", <<function_id, api_doc, mode, fail_on_warnings>>,
                    put_rest_api_error(api_doc, mode, fail_on_warnings,
                                       validation, sort_error),
                    None)
    /\ backend_resources' = IF put_rest_api_overwrites(api_doc, mode)
                              THEN "{}" ELSE backend_resources
    /\ UNCHANGED <<apis, nextId, keys, usage_plans, usage_plan_keys, domain_names>>

(***************************************************************************)
(* DomainName, Model and their operations.                                 *)
(***************************************************************************)
\* DomainName.__init__, of the optional arguments the certificate name
DomainName(domain_name, certificate_name, now) ==
    PutIfTruthy(
        [domainName |-> domain_name, regionalDomainName |-> domain_name,
         distributionDomainName |-> domain_name,
         domainNameStatus |-> "AVAILABLE",
         domainNameStatusMessage |-> "Domain Name Available",
         regionalHostedZoneId |-> "Z2FDTNDATAQYW2",
         distributionHostedZoneId |-> "Z2FDTNDATAQYW2",
         certificateUploadDate |-> now],
        "certificateName", certificate_name)

\* Model.__init__, of the optional arguments the description and the
\* content type
Model(id, name, description, content_type) ==
    PutIfTruthy(PutIfTruthy([id |-> id, name |-> name],
                            "description", description),
                "contentType", content_type)

\* RestAPI.add_model
add_model(api, model_id, name, description, content_type) ==
    [api EXCEPT !.models = Put(@, name, Model(model_id, name, description, content_type))]

\* APIGatewayBackend.create_domain_name
create_domain_name(domain_name, certificate_name, now) ==
    IF ~Truthy(domain_name)
      THEN /\ last' = Call("create_domain_name", <<domain_name>>,
                           "InvalidDomainName", None)
           /\ UNCHANGED <<apis, nextId, keyVars>>
      ELSE /\ domain_names' = Put(domain_names, domain_name,
                                  DomainName(domain_name, certificate_name, now))
           /\ last' = Call("create_domain_name", <<domain_name>>, OK, domain_name)
           /\ UNCHANGED <<apis, nextId, keys, usage_plans, usage_plan_keys, backend_resources>>

\* APIGatewayBackend.create_model
create_model(rest_api_id, name, content_type, description) ==
    LET args == <<rest_api_id, name>>
    IN  IF ~Truthy(rest_api_id)
          THEN /\ last' = Call("create_model", args, "InvalidRestApiId", None)
               /\ UNCHANGED <<apis, nextId, keyVars>>
        ELSE IF ~Truthy(name)
          THEN /\ last' = Call("create_model", args, "InvalidModelName", None)
               /\ UNCHANGED <<apis, nextId, keyVars>>
        ELSE IF RestAPINotFound(rest_api_id)
          THEN /\ last' = Call("create_model", args, "RestAPINotFound", None)
               /\ UNCHANGED <<apis, nextId, keyVars>>
        ELSE /\ nextId <= MaxIds
             /\ apis' = [apis EXCEPT ![rest_api_id] =
                            add_model(@, create_id, name, description, content_type)]
             /\ nextId' = nextId + 1
             /\ last' = Call("create_model", args, OK, name)
             /\ UNCHANGED keyVars

(***************************************************************************)
(* The backend as a state machine.                                         *)
(***************************************************************************)
MethodTypes == {"GET"}
AuthorizationTypes == {"NONE"}

Init ==
    /\ apis = EmptyDict
    /\ nextId = 1
    /\ last = Idle
    /\ keys = EmptyDict
    /\ usage_plans = EmptyDict
    /\ usage_plan_keys = EmptyDict
    /\ domain_names = EmptyDict
    /\ backend_resources = None

(***************************************************************************)
(* The resource tree: REST APIs and their resources.                       *)
(***************************************************************************)
NextTree ==
    \/ \E name \in ApiNames : create_rest_api(name)
    \/ \E a \in ApiIds : \E p \in ResourceInputs(a) : \E part \in PathParts :
          create_resource(a, p, part)
    \/ \E a \in ApiIds : \E r \in ResourceInputs(a) : delete_resource(a, r)

SpecTree == Init /\ [][NextTree]_vars

(***************************************************************************)
(* The deployment lifecycle: methods, integrations, deployments, stages.   *)
(***************************************************************************)
StageNames == {"dev", "prod"}
StageVariables == {NoneObj, [k \in {"env"} |-> "v1"]}
Times == {1, 2}

\* the deployment ids a caller passes for an API
DeploymentInputs(function_id) ==
    IF function_id \in DOMAIN apis
      THEN DOMAIN apis[function_id].deployments \cup {UnknownId}
      ELSE {UnknownId}

Patch(op, path, value) == [op |-> op, path |-> path, value |-> value]

\* the patch batches a caller passes to update_stage
StagePatches(function_id) ==
    {<<Patch("replace", "/deploymentId", d)>> : d \in DeploymentInputs(function_id)}
    \cup {<<Patch("remove", "/variables/env", None)>>,
          <<Patch("add", "/variables/env", "v2")>>}

NextDeploy ==
    \/ \E name \in ApiNames : create_rest_api(name)
    \/ \E a \in DOMAIN apis : \E p \in ResourceIds(apis[a].resources) :
          create_resource(a, p, "a")
    \/ \E a \in DOMAIN apis : \E r \in ResourceIds(apis[a].resources) :
          delete_resource(a, r)
    \/ \E a \in DOMAIN apis : \E r \in ResourceIds(apis[a].resources) :
       \E m \in MethodTypes : \E t \in AuthorizationTypes :
          create_method(a, r, m, t, None)
    \/ \E a \in DOMAIN apis : \E r \in ResourceIds(apis[a].resources) :
       \E m \in MethodTypes :
          create_integration(a, r, m, "MOCK", "", None, None, NoneObj)
    \/ \E a \in DOMAIN apis : \E r \in ResourceIds(apis[a].resources) :
       \E m \in MethodTypes :
          delete_integration(a, r, m)
    \/ \E a \in ApiIds : \E n \in StageNames : \E v \in StageVariables :
       \E now \in Times :
          create_deployment(a, n, "", v, now)

SpecDeploy == Init /\ [][NextDeploy]_vars

(***************************************************************************)
(* Deployments and stages of an API that can be deployed: its root has a   *)
(* method with an integration.                                             *)
(***************************************************************************)
DeployableApi ==
    [RestAPI("id1", "id2", "api") EXCEPT !.resources[1] =
        add_integration(add_method(@, "GET", "NONE", None),
                        "GET", "MOCK", "", NoneObj)]

InitStage ==
    /\ apis = [x \in {"id1"} |-> DeployableApi]
    /\ nextId = 3
    /\ last = Idle
    /\ keys = EmptyDict
    /\ usage_plans = EmptyDict
    /\ usage_plan_keys = EmptyDict
    /\ domain_names = EmptyDict
    /\ backend_resources = None

NextStage ==
    \/ \E a \in DOMAIN apis : \E n \in StageNames : \E v \in StageVariables :
       \E now \in Times :
          create_deployment(a, n, "", v, now)
    \/ \E a \in DOMAIN apis : \E n \in StageNames :
       \E d \in DeploymentInputs(a) :
          create_stage(a, n, d, NoneObj, "", None, None)
    \/ \E a \in DOMAIN apis : \E n \in StageNames :
       \E ops \in StagePatches(a) :
          update_stage(a, n, ops)
    \/ \E a \in DOMAIN apis : \E n \in StageNames : delete_stage(a, n)
    \/ \E a \in DOMAIN apis : \E d \in DeploymentInputs(a) :
          delete_deployment(a, d)

SpecStage == InitStage /\ [][NextStage]_vars

\* the same with the lookup of a stage
NextLookup ==
    \/ \E a \in DOMAIN apis : \E n \in StageNames : \E v \in StageVariables :
       \E now \in Times :
          create_deployment(a, n, "", v, now)
    \/ \E a \in DOMAIN apis : \E n \in StageNames :
       \E d \in DeploymentInputs(a) :
          create_stage(a, n, d, NoneObj, "", None, None)
    \/ \E a \in DOMAIN apis : \E n \in StageNames :
       \E ops \in StagePatches(a) :
          update_stage(a, n, ops)
    \/ \E a \in DOMAIN apis : \E n \in StageNames : delete_stage(a, n)
    \/ \E a \in DOMAIN apis : \E d \in DeploymentInputs(a) :
          delete_deployment(a, d)
    \/ \E a \in ApiIds : \E n \in StageNames : get_stage(a, n)

SpecLookup == InitStage /\ [][NextLookup]_vars

(***************************************************************************)
(* Integrations of an API whose root has the method GET.                   *)
(***************************************************************************)
IntegrationTypes == {"MOCK", "HTTP", "HTTP_PROXY", "AWS", "AWS_PROXY"}

Uris ==
    {"example.com/path", "http://example.com/path", "http://example.com",
     "arn:aws:s3:::bucket", "arn:aws:apigateway:us-west-2:s3:path/b/k",
     "arn:aws:apigateway:us-west-2:lambda:path/f"}

Credentials ==
    {None, "arn:aws:iam::" \o ACCOUNT_ID \o ":role/r",
     "arn:aws:iam::999999999999:role/r"}

IntegrationMethods == {None, "POST"}

RequestTemplates == {NoneObj}

ResponseTemplates ==
    {NoneObj, EmptyDict, [x \in {"application/json"} |-> "{}"]}

IntegApi ==
    [RestAPI("id1", "id2", "api") EXCEPT !.resources[1] =
        add_method(@, "GET", "NONE", None)]

InitInteg ==
    /\ apis = [x \in {"id1"} |-> IntegApi]
    /\ nextId = 3
    /\ last = Idle
    /\ keys = EmptyDict
    /\ usage_plans = EmptyDict
    /\ usage_plan_keys = EmptyDict
    /\ domain_names = EmptyDict
    /\ backend_resources = None

NextInteg ==
    \/ \E a \in DOMAIN apis : \E r \in ResourceIds(apis[a].resources) :
       \E t \in IntegrationTypes : \E u \in Uris :
       \E im \in IntegrationMethods : \E c \in Credentials :
       \E rt \in RequestTemplates :
          create_integration(a, r, "GET", t, u, im, c, rt)
    \/ \E a \in DOMAIN apis : \E r \in ResourceIds(apis[a].resources) :
       \E u \in Uris :
          create_integration(a, r, "PUT", "HTTP", u, "POST", None, NoneObj)
    \/ \E a \in DOMAIN apis : \E t \in IntegrationTypes :
       \E c \in Credentials :
          create_integration(a, UnknownId, "GET", t, "example.com/path",
                             None, c, NoneObj)
    \/ \E a \in DOMAIN apis : \E r \in ResourceIds(apis[a].resources) :
       \E rt \in ResponseTemplates :
          create_integration_response(a, r, "GET", "404", None, rt, None)
    \/ \E a \in DOMAIN apis : \E r \in ResourceIds(apis[a].resources) :
          delete_integration(a, r, "GET")
    \/ \E a \in DOMAIN apis : \E r \in ResourceIds(apis[a].resources) :
          create_method(a, r, "GET", "NONE", None)

SpecInteg == InitInteg /\ [][NextInteg]_vars

(***************************************************************************)
(* Batches of patch operations on a stage, an authorizer and an API key.   *)
(***************************************************************************)
\* the sequences of 1..n elements of S
RECURSIVE SeqsUpTo(_, _)
SeqsUpTo(S, n) ==
    IF n = 0 THEN {}
    ELSE LET shorter == SeqsUpTo(S, n - 1)
         IN  {<<x>> : x \in S} \cup shorter
               \cup {Append(q, x) : q \in shorter, x \in S}

\* what random.sample returns in ApiKey.__init__: 40 distinct characters
GeneratedValues ==
    {"abcdefghijklmnopqrstuvwxyzABCDEFGHIJKLMN",
     "0123456789ZYXWVUTSRQPONMLKJIHGFEDCBAzyxw",
     "NOPQRSTUVWXYZ0123456789abcdefghijklmnopq",
     "9876543210zyxwvutsrqponmlkjihgfedcbaZYXW"}

StageBatchOps ==
    {Patch("replace", "/description", "d"),
     Patch("remove", "/unknown", ""),
     Patch("replace", "/variables/env", "v")}

AuthorizerBatchOps ==
    {Patch("replace", "/name", "auth2"), Patch("replace", "/providerARNs", "arn")}

ApiKeyBatchOps ==
    {Patch("replace", "/name", "n2"), Patch("remove", "/name", "")}

\* an API with the stage dev and the authorizer id4
BatchApi ==
    RestAPI_create_authorizer(
        RestAPI_create_deployment(DeployableApi, "id3", "dev", "", NoneObj, 1),
        "id4", "auth", "TOKEN", None, "uri", None, None, None, 300)

InitBatch ==
    /\ apis = [x \in {"id1"} |-> BatchApi]
    /\ nextId = 6
    /\ last = Idle
    /\ keys = [x \in {"id5"} |->
                  ApiKey([name |-> "n1"], "id5",
                         "abcdefghijklmnopqrstuvwxyzABCDEFGHIJKLMN", 1)]
    /\ usage_plans = EmptyDict
    /\ usage_plan_keys = EmptyDict
    /\ domain_names = EmptyDict
    /\ backend_resources = None

NextBatch ==
    \/ \E a \in DOMAIN apis : \E n \in DOMAIN apis[a].stages :
       \E ops \in SeqsUpTo(StageBatchOps, MaxBatch) :
          update_stage(a, n, ops)
    \/ \E a \in DOMAIN apis : \E i \in DOMAIN apis[a].authorizers :
       \E ops \in SeqsUpTo(AuthorizerBatchOps, MaxBatch) :
          update_authorizer(a, i, ops)
    \/ \E k \in DOMAIN keys : \E ops \in SeqsUpTo(ApiKeyBatchOps, MaxBatch) :
          update_apikey(k, ops)

SpecBatch == InitBatch /\ [][NextBatch]_vars

(***************************************************************************)
(* Patch operations on one stage.                                          *)
(***************************************************************************)
StagePatchOps ==
    {Patch("replace", "/variables/env", "v"),
     Patch("remove", "/variables/env", ""),
     Patch("add", "/variables/env", "v"),
     Patch("replace", "/variables/description", "x"),
     Patch("replace", "/cacheClusterEnabled", "true"),
     Patch("replace", "/cacheClusterEnabled", "TRUE"),
     Patch("replace", "/cacheClusterEnabled", "no"),
     Patch("replace", "/cacheClusterSize", "1.6"),
     Patch("replace", "/description", "d"),
     Patch("replace", "/*/*/throttling/rateLimit", "500"),
     Patch("replace", "/*/*/logging/loglevel", "INFO"),
     Patch("replace", "/*/*/caching/ttlInSeconds", "abc"),
     Patch("replace", "/a/GET/metrics/enabled", "true"),
     Patch("replace", "/*/*/foo/bar", "1"),
     Patch("replace", "/b/GET/foo", "1"),
     Patch("replace", "/foo", "1"),
     Patch("remove", "/foo", ""),
     Patch("add", "/*/*/throttling/rateLimit", "500")}

\* an API with the stage dev
PatchApi ==
    RestAPI_create_deployment(DeployableApi, "id3", "dev", "", NoneObj, 1)

InitPatch ==
    /\ apis = [x \in {"id1"} |-> PatchApi]
    /\ nextId = 4
    /\ last = Idle
    /\ keys = EmptyDict
    /\ usage_plans = EmptyDict
    /\ usage_plan_keys = EmptyDict
    /\ domain_names = EmptyDict
    /\ backend_resources = None

NextPatch ==
    \E a \in DOMAIN apis : \E n \in DOMAIN apis[a].stages :
    \E op \in StagePatchOps :
       update_stage(a, n, <<op>>)

SpecPatch == InitPatch /\ [][NextPatch]_vars

(***************************************************************************)
(* API keys, usage plans and usage plan keys.                              *)
(***************************************************************************)
\* the payloads of create_apikey: without value, with a value of the
\* caller's, with a value that random.sample can return
ApiKeyPayloads ==
    {[name |-> "n1"], [name |-> "n1", value |-> "secret"],
     [name |-> "n1", value |-> "abcdefghijklmnopqrstuvwxyzABCDEFGHIJKLMN"]}

\* the results of random.sample that no stored key has for its value: two
\* samples of 40 out of 62 characters are taken to differ from each other
\* and from the values that are stored
FreshValues == GeneratedValues \ {keys[k].value : k \in DOMAIN keys}

ApiKeyPatchOps ==
    {Patch("replace", "/name", "n2"), Patch("replace", "/value", "secret"),
     Patch("remove", "/name", "")}

NextKeys ==
    \/ \E payload \in ApiKeyPayloads : \E generated \in FreshValues :
          create_apikey(payload, generated, 1)
    \/ \E k \in DOMAIN keys \cup {UnknownId} : \E op \in ApiKeyPatchOps :
          update_apikey(k, <<op>>)
    \/ \E k \in DOMAIN keys \cup {UnknownId} : delete_apikey(k)

SpecKeys == Init /\ [][NextKeys]_vars

(***************************************************************************)
(* Usage plans and usage plan keys of a backend with two API keys.         *)
(***************************************************************************)
\* the identifiers create_id has returned, and one it never returns
IssuedIds == {"id" \o ToString(i) : i \in 1..(nextId - 1)} \cup {UnknownId}

InitPlans ==
    /\ apis = EmptyDict
    /\ nextId = 3
    /\ last = Idle
    /\ keys = [x \in {"id1", "id2"} |->
                  IF x = "id1"
                    THEN ApiKey([name |-> "n1", value |-> "secret"], "id1",
                                "abcdefghijklmnopqrstuvwxyzABCDEFGHIJKLMN", 1)
                    ELSE ApiKey([name |-> "n1"], "id2",
                                "abcdefghijklmnopqrstuvwxyzABCDEFGHIJKLMN", 1)]
    /\ usage_plans = EmptyDict
    /\ usage_plan_keys = EmptyDict
    /\ domain_names = EmptyDict
    /\ backend_resources = None

NextPlans ==
    \/ \E k \in DOMAIN keys :
          update_apikey(k, <<Patch("replace", "/name", "n2")>>)
    \/ \E k \in DOMAIN keys : delete_apikey(k)
    \/ create_usage_plan([name |-> "plan"])
    \/ \E p \in DOMAIN usage_plans : delete_usage_plan(p)
    \/ \E p \in DOMAIN usage_plans : \E k \in IssuedIds \ DOMAIN usage_plans :
          create_usage_plan_key(p, [keyId |-> k, keyType |-> "API_KEY"])
    \/ \E p \in DOMAIN usage_plans : \E k \in DOMAIN keys :
          delete_usage_plan_key(p, k)

SpecPlans == InitPlans /\ [][NextPlans]_vars

(***************************************************************************)
(* The import of OpenAPI documents into the APIs of a backend.             *)
(***************************************************************************)
\* the value of "responses" in the documents: the response code 200
DocResponses == [c \in {"200"} |-> [description |-> "ok"]]

\* a method of a document without the integration extension, one with it,
\* and one without the key "responses"
BareMethodDoc ==
    [k \in {"x-amazon-apigateway-integration", "responses"} |->
        IF k = "responses" THEN DocResponses ELSE NoneObj]

IntegrationMethodDoc ==
    [k \in {"x-amazon-apigateway-integration", "responses"} |->
        IF k = "responses" THEN DocResponses
        ELSE [type |-> "MOCK", uri |-> "", httpMethod |-> "POST"]]

NoResponsesMethodDoc ==
    [k \in {"x-amazon-apigateway-integration"} |-> NoneObj]

\* the values of "paths" in the documents
DocPaths ==
    [p \in {"/pets", "/toys"} |->
        [m \in {"GET"} |->
            IF p = "/pets" THEN BareMethodDoc ELSE IntegrationMethodDoc]]

DocPathsNoResponses == [p \in {"/pets"} |-> [m \in {"GET"} |-> NoResponsesMethodDoc]]

\* the documents given to put_rest_api: an OpenAPI 3 document as it is
\* written (no key "swagger"), the same with "swagger" null, documents of
\* other versions, and documents that lack a key
ApiDocs ==
    {[openapi |-> "3.0.1", paths |-> DocPaths],
     [swagger |-> None, openapi |-> "3.0.1", paths |-> DocPaths],
     [swagger |-> None, openapi |-> "3.0.1", paths |-> DocPathsNoResponses],
     [swagger |-> None, openapi |-> "3.0.1"],
     [swagger |-> None, paths |-> DocPaths],
     [swagger |-> None, openapi |-> "2.0", paths |-> DocPaths],
     [swagger |-> "2.0", openapi |-> None, paths |-> DocPaths],
     [swagger |-> "2.0", paths |-> DocPaths],
     [swagger |-> None, openapi |-> "", paths |-> DocPaths]}

ImportModes == {"merge", "overwrite", "replace"}

ImportPathParts == {"pets", "a/b"}

NextImport ==
    \/ \E name \in ApiNames : create_rest_api(name)
    \/ \E a \in DOMAIN apis : \E p \in ResourceIds(apis[a].resources) :
       \E part \in ImportPathParts :
          create_resource(a, p, part)
    \/ \E a \in ApiIds : \E api_doc \in ApiDocs : \E mode \in ImportModes :
       \E fail_on_warnings \in {PyTrue, PyFalse} :
       \E validation \in ValidationOutcomes : \E sort_error \in SortErrors :
          put_rest_api(a, api_doc, mode, fail_on_warnings, validation, sort_error)

SpecImport == Init /\ [][NextImport]_vars

(***************************************************************************)
(* The operations that validate their input, on an API whose root has the  *)
(* method GET.                                                             *)
(***************************************************************************)
ValidatedPathParts == {"a", "a/b", ""}
DomainNames == {"example.com", "", None}
CertificateNames == {None, "cert"}
ModelNames == {"m1", ""}
ValidatedDocs ==
    {[swagger |-> None, openapi |-> "3.0.1", paths |-> DocPaths],
     [swagger |-> None, openapi |-> "3.0.1"],
     [swagger |-> None, openapi |-> "2.0", paths |-> DocPaths],
     [swagger |-> "2.0", openapi |-> None, paths |-> DocPaths]}

NextValid ==
    \/ \E a \in DOMAIN apis : \E part \in ValidatedPathParts :
          create_resource(a, apis[a].resources[1].id, part)
    \/ \E a \in DOMAIN apis :
          create_integration(a, apis[a].resources[1].id, "GET", "HTTP",
                             "http://example.com/path", "POST", None, NoneObj)
    \/ \E a \in DOMAIN apis : \E rt \in ResponseTemplates :
          create_integration_response(a, apis[a].resources[1].id, "GET", "404",
                                      None, rt, None)
    \/ \E d \in DomainNames : \E c \in CertificateNames :
          create_domain_name(d, c, 1)
    \/ \E a \in ApiIds \cup {""} : \E name \in ModelNames :
          create_model(a, name, "application/json", None)
    \/ \E a \in DOMAIN apis : \E api_doc \in ValidatedDocs :
       \E mode \in ImportModes : \E validation \in ValidationOutcomes :
       \E sort_error \in SortErrors :
          put_rest_api(a, api_doc, mode, PyTrue, validation, sort_error)

SpecValid == InitInteg /\ [][NextValid]_vars

(***************************************************************************)
(* The authorizers of the APIs of a backend.                               *)
(***************************************************************************)
\* the keyword arguments of create_authorizer: none, all of them with the
\* validation expression under the name of the parameter of
\* RestAPI.create_authorizer or under the name Authorizer reads, and some
\* with empty values
AuthorizerKwargs ==
    {EmptyDict,
     [auth_type |-> "custom", authorizer_uri |-> "uri",
      authorizer_credentials |-> "role", identity_source |-> "header",
      identiy_validation_expression |-> "expr", authorizer_result_ttl |-> "300"],
     [auth_type |-> "custom", authorizer_uri |-> "uri",
      authorizer_credentials |-> "role", identity_source |-> "header",
      identity_validation_expression |-> "expr", authorizer_result_ttl |-> "300"],
     [authorizer_uri |-> "uri", authorizer_result_ttl |-> "0"],
     [authorizer_uri |-> "", identity_source |-> "header"]}

AuthorizerPatchOps ==
    {Patch("replace", "/identityValidationExpression", "expr2")}

NextAuth ==
    \/ \E name \in ApiNames : create_rest_api(name)
    \/ \E a \in ApiIds : \E kwargs \in AuthorizerKwargs :
          create_authorizer(a, "auth", "TOKEN", kwargs)
    \/ \E a \in DOMAIN apis : \E i \in DOMAIN apis[a].authorizers \cup {UnknownId} :
       \E op \in AuthorizerPatchOps :
          update_authorizer(a, i, <<op>>)

SpecAuth == Init /\ [][NextAuth]_vars

(***************************************************************************)
(* The lookup of a resource by its path.                                   *)
(***************************************************************************)
LookupPaths == {"/", "/a", "/a/a", "/b"}

NextPath ==
    \/ \E name \in ApiNames : create_rest_api(name)
    \/ \E a \in DOMAIN apis : \E p \in ResourceIds(apis[a].resources) :
          create_resource(a, p, "a")
    \/ \E a \in DOMAIN apis : \E r \in ResourceIds(apis[a].resources) :
          delete_resource(a, r)
    \/ \E a \in DOMAIN apis : \E path \in LookupPaths :
          get_resource_for_path(a, path)

SpecPath == Init /\ [][NextPath]_vars

(***************************************************************************)
(* The methods of the root of an API.                                      *)
(***************************************************************************)
NextMethod ==
    \/ \E a \in DOMAIN apis : \E r \in ResourceInputs(a) :
       \E m \in {"GET", "POST"} : \E t \in {"NONE", "AWS_IAM"} :
       \E k \in {None, PyTrue} :
          create_method(a, r, m, t, k)
    \/ \E a \in DOMAIN apis : \E r \in ResourceIds(apis[a].resources) :
       \E m \in {"GET", "POST"} :
          create_integration(a, r, m, "MOCK", "", None, None, NoneObj)
    \/ \E a \in DOMAIN apis : \E r \in ResourceIds(apis[a].resources) :
       \E m \in {"GET", "POST"} :
          create_method_response(a, r, m, "200")

SpecMethod == InitInteg /\ [][NextMethod]_vars

(***************************************************************************)
(* Properties of the resource tree.                                        *)
(***************************************************************************)
\* the resources of API a that have no parent
Parentless(a) ==
    {i \in 1..Len(apis[a].resources) :
        ~Truthy(apis[a].resources[i].parent_id)}

\* C7: get_path() of the root is "/", and get_path() of a node whose parent
\* is in the mapping and has a path is the parent's path, then "/" unless
\* that path is "/" already, then the node's own path part.
C7_PathComposition ==
    \A a \in DOMAIN apis : \A i \in 1..Len(apis[a].resources) :
        LET rs == apis[a].resources
            r  == rs[i]
        IN  /\ ~Truthy(r.parent_id) => get_path(rs, r) = "/"
            /\ /\ Truthy(r.parent_id)
               /\ r.parent_id \in ResourceIds(rs)
               /\ get_path(rs, ResourceAt(rs, r.parent_id)) # KeyError
               => LET pp == get_path(rs, ResourceAt(rs, r.parent_id))
                  IN  get_path(rs, r) =
                         (IF pp = "/" THEN "/" ELSE pp \o "/") \o r.path_part

\* a node two levels below the root, its path composed from both ancestors
C7_Witness ==
    \E a \in DOMAIN apis : \E i \in 1..Len(apis[a].resources) :
        /\ get_path(apis[a].resources, apis[a].resources[i]) = "/a/{p+}"
        /\ last.op = "create_resource" /\ last.result = OK

\* C8: every REST API holds exactly one resource without a parent, and its
\* path part is "/".
C8_ExactlyOneRoot ==
    \A a \in DOMAIN apis :
        /\ Cardinality(Parentless(a)) = 1
        /\ \A i \in Parentless(a) : apis[a].resources[i].path_part = "/"

(***************************************************************************)
(* Properties of create_deployment.                                        *)
(***************************************************************************)
\* the methods of all resources of an API
AllMethods(api) ==
    UNION {{api.resources[i].resource_methods[m] :
               m \in DOMAIN api.resources[i].resource_methods} :
           i \in 1..Len(api.resources)}

HasIntegration(method) ==
    "methodIntegration" \in DOMAIN method /\ method.methodIntegration # NoneObj

\* the API holds its root and nothing else
OnlyRoot(api) ==
    Len(api.resources) = 1 /\ ~Truthy(api.resources[1].parent_id)

\* the last call was create_deployment on a stored API
DeploymentCalled ==
    last.op = "create_deployment" /\ last.args.function_id \in DOMAIN apis

\* C1: on an API that holds only its root, create_deployment signals
\* NoMethodDefined while the root has no method, NoIntegrationDefined when
\* it has one method and that method has no integration, and succeeds when
\* that method has an integration; the stage stored under the name of the
\* returned deployment then has the deploymentId of that deployment.
C1_DeploymentSequencing ==
    DeploymentCalled /\ OnlyRoot(apis[last.args.function_id]) =>
        LET api     == apis[last.args.function_id]
            methods == AllMethods(api)
        IN  /\ methods = {} => last.result = "NoMethodDefined"
            /\ Cardinality(methods) = 1
                  /\ (\A m \in methods : ~HasIntegration(m))
                  => last.result = "NoIntegrationDefined"
            /\ Cardinality(methods) = 1
                  /\ (\A m \in methods : HasIntegration(m))
                  => /\ last.result = OK
                     /\ last.ret.stageName \in DOMAIN api.stages
                     /\ api.stages[last.ret.stageName].deploymentId = last.ret.id
                     /\ last.ret.id \in DOMAIN api.deployments

\* a deployment made on an API that holds only its root, after
\* create_integration gave the root's method its integration
C1_Witness ==
    /\ DeploymentCalled
    /\ last.result = OK
    /\ OnlyRoot(apis[last.args.function_id])
    /\ \E m \in AllMethods(apis[last.args.function_id]) :
          HasIntegration(m) /\ m.methodIntegration.type = "MOCK"

\* C2: create_deployment signals NoMethodDefined only when no resource of
\* the API has a method, NoIntegrationDefined only when there is a method
\* and no method of any resource has an integration, and succeeds in every
\* other state.
C2_AllResourcesExamined ==
    DeploymentCalled =>
        LET methods == AllMethods(apis[last.args.function_id])
        IN  /\ last.result = "NoMethodDefined" => methods = {}
            /\ last.result = "NoIntegrationDefined"
                  => methods # {} /\ \A m \in methods : ~HasIntegration(m)
            /\ (\E m \in methods : HasIntegration(m)) => last.result = OK

(***************************************************************************)
(* Properties of deployments and stages.                                   *)
(***************************************************************************)
\* C9: a successful create_deployment(name) adds one deployment under an id
\* that no deployment had, keeps the earlier deployments as they were, and
\* stores under name a new stage that points at the new deployment, has no
\* methodSettings and has the supplied variables; the stages of the other
\* names are unchanged.
C9_CreateDeploymentFrame ==
    [][\A a \in DOMAIN apis :
          /\ last'.op = "create_deployment"
          /\ last'.result = OK
          /\ last'.args.function_id = a
          /\ nextId' # nextId
          => LET old  == apis[a]
                 new  == apis'[a]
                 d    == last'.ret.id
                 name == last'.args.name
                 vars_in == last'.args.stage_variables
             IN  /\ d \notin DOMAIN old.deployments
                 /\ DOMAIN new.deployments = DOMAIN old.deployments \cup {d}
                 /\ new.deployments[d] = last'.ret
                 /\ \A e \in DOMAIN old.deployments :
                       new.deployments[e] = old.deployments[e]
                 /\ DOMAIN new.stages = DOMAIN old.stages \cup {name}
                 /\ new.stages[name].stageName = name
                 /\ new.stages[name].deploymentId = d
                 /\ new.stages[name].methodSettings = EmptyDict
                 /\ new.stages[name].variables =
                       (IF vars_in = NoneObj THEN EmptyDict ELSE vars_in)
                 /\ \A n \in DOMAIN old.stages \ {name} :
                       new.stages[n] = old.stages[n]
                 /\ new.resources = old.resources
      ]_vars

\* a second deployment under a name whose stage existed with variables: the
\* earlier deployment is still stored and the stage was replaced
C9_Witness ==
    /\ last.op = "create_deployment"
    /\ last.result = OK
    /\ last.args.stage_variables = NoneObj
    /\ LET api == apis[last.args.function_id]
       IN  /\ \E e \in DOMAIN api.deployments :
                 /\ e # last.ret.id
                 /\ api.deployments[e].stageName = last.args.name
           /\ api.stages[last.args.name].variables = EmptyDict
           /\ \E n \in DOMAIN api.stages : n # last.args.name

\* C10: a stored deployment is returned unchanged by get_deployment after
\* every call except the delete_deployment that removes it.
C10_DeploymentImmutable ==
    [][\A a \in DOMAIN apis : \A d \in DOMAIN apis[a].deployments :
          \/ /\ last'.op = "delete_deployment"
             /\ last'.result = OK
             /\ last'.args = <<a, d>>
          \/ get_deployment(a, d)' = get_deployment(a, d)
      ]_vars

\* a deployment that is still stored after its stage was deleted
C10_Witness ==
    /\ last.op = "delete_stage"
    /\ last.result = OK
    /\ \E d \in DOMAIN apis[last.args[1]].deployments :
          apis[last.args[1]].deployments[d].stageName = last.args[2]

(***************************************************************************)
(* Properties of create_integration.                                       *)
(***************************************************************************)
\* the last call was create_integration and found its resource
IntegrationCalled ==
    /\ last.op = "create_integration"
    /\ get_resource_error(last.args.function_id, last.args.resource_id) = OK

\* the errors of the seven checks, in the order of section 4.2
CheckOrder ==
    <<"CrossAccountNotAllowed", "IntegrationMethodNotDefined",
      "AwsProxyNotAllowed", "RoleNotSpecified", "InvalidHttpEndpoint",
      "InvalidArn", "InvalidIntegrationArn">>

\* check i of section 4.2, taken alone, rejects the arguments
CheckViolated(i, args) ==
    CASE i = 1 -> /\ args.credentials # None
                  /\ ~MatchesAccountArn(args.credentials)
      [] i = 2 -> /\ args.integration_type # "MOCK"
                  /\ args.integration_method = None
      [] i = 3 -> /\ args.integration_type = "AWS_PROXY"
                  /\ MatchesS3Arn(args.uri)
      [] i = 4 -> /\ args.integration_type = "AWS"
                  /\ MatchesS3Arn(args.uri)
                  /\ args.credentials = None
      [] i = 5 -> /\ args.integration_type \in {"HTTP", "HTTP_PROXY"}
                  /\ ~_uri_validator(args.uri)
      [] i = 6 -> /\ args.integration_type \in {"AWS", "AWS_PROXY"}
                  /\ ~MatchesArn(args.uri)
      [] i = 7 -> /\ args.integration_type \in {"AWS", "AWS_PROXY"}
                  /\ ~MatchesIntegrationArn(args.uri)

ViolatedChecks(args) == {i \in 1..7 : CheckViolated(i, args)}

\* the method the call names exists on the resource the call names
TargetMethodExists ==
    last.args.method_type \in
        DOMAIN get_resource(last.args.function_id, last.args.resource_id)
                 .resource_methods

\* C3: a create_integration that finds its resource signals the error of
\* the earliest check, in the order CrossAccountNotAllowed,
\* IntegrationMethodNotDefined, AwsProxyNotAllowed, RoleNotSpecified,
\* InvalidHttpEndpoint, InvalidArn, InvalidIntegrationArn, that its
\* arguments violate, and none of the seven when they violate none; a MOCK
\* integration is rejected by the credentials check only.
C3_CheckOrder ==
    IntegrationCalled =>
        LET violated == ViolatedChecks(last.args)
        IN  /\ violated # {} =>
                 \E i \in violated :
                    /\ \A j \in violated : i <= j
                    /\ last.result = CheckOrder[i]
            /\ violated = {} =>
                 last.result = (IF TargetMethodExists THEN OK ELSE KeyError)
            /\ last.args.integration_type = "MOCK" =>
                 /\ last.result \in {"CrossAccountNotAllowed", OK, KeyError}
                 /\ last.result = "CrossAccountNotAllowed" <=>
                       /\ last.args.credentials # None
                       /\ ~MatchesAccountArn(last.args.credentials)

\* a call whose arguments violate the checks of the credentials, of the
\* backend HTTP method and of the URI at once
C3_Witness ==
    /\ IntegrationCalled
    /\ {1, 2, 5} \subseteq ViolatedChecks(last.args)
    /\ last.result = "CrossAccountNotAllowed"

\* C4: a create_integration that signals one of the seven validation errors
\* leaves the whole backend as it was; one that succeeds leaves on the
\* method exactly the new integration, with the default integration
\* responses, and changes nothing else.
C4_AttachAfterChecks ==
    [][last'.op = "create_integration" =>
          /\ last'.result \in {CheckOrder[i] : i \in 1..7} =>
                apis' = apis /\ nextId' = nextId /\ UNCHANGED keyVars
          /\ last'.result = OK =>
                LET a   == last'.args.function_id
                    r   == last'.args.resource_id
                    m   == last'.args.method_type
                    old == ResourceAt(apis[a].resources, r)
                    new == ResourceAt(apis'[a].resources, r)
                IN  /\ nextId' = nextId
                    /\ UNCHANGED keyVars
                    /\ DOMAIN apis' = DOMAIN apis
                    /\ \A b \in DOMAIN apis \ {a} : apis'[b] = apis[b]
                    /\ apis'[a].deployments = apis[a].deployments
                    /\ apis'[a].stages = apis[a].stages
                    /\ apis'[a].authorizers = apis[a].authorizers
                    /\ ResourceIds(apis'[a].resources) =
                          ResourceIds(apis[a].resources)
                    /\ \A q \in ResourceIds(apis[a].resources) \ {r} :
                          ResourceAt(apis'[a].resources, q) =
                             ResourceAt(apis[a].resources, q)
                    /\ new.path_part = old.path_part
                    /\ new.parent_id = old.parent_id
                    /\ DOMAIN new.resource_methods = DOMAIN old.resource_methods
                    /\ \A n \in DOMAIN old.resource_methods \ {m} :
                          new.resource_methods[n] = old.resource_methods[n]
                    /\ \A f \in DOMAIN old.resource_methods[m] \ {"methodIntegration"} :
                          new.resource_methods[m][f] = old.resource_methods[m][f]
                    /\ new.resource_methods[m].methodIntegration =
                          [type |-> last'.args.integration_type,
                           uri |-> last'.args.uri,
                           httpMethod |-> m,
                           requestTemplates |-> last'.args.request_templates,
                           integrationResponses |->
                              [x \in {"200"} |->
                                  IntegrationResponse(200, None, NoneObj, None)]]
      ]_vars

\* a successful create_integration of type AWS on a method
C4_Witness ==
    /\ IntegrationCalled
    /\ last.result = OK
    /\ last.args.integration_type = "AWS"
    /\ get_integration(last.args.function_id, last.args.resource_id,
                       last.args.method_type).type = "AWS"

\* the URI has no scheme
LacksScheme(uri) == UrlScheme(uri) = ""

\* the credentials are absent or of the current account
CredentialsPass(credentials) ==
    credentials = None \/ MatchesAccountArn(credentials)

\* C5, as stated: a create_integration of type HTTP signals
\* InvalidHttpEndpoint whenever the URI lacks a scheme, and succeeds for the
\* URI "http://example.com/path".
C5_HttpEndpointAlways ==
    (IntegrationCalled /\ last.args.integration_type = "HTTP") =>
        /\ LacksScheme(last.args.uri) => last.result = "InvalidHttpEndpoint"
        /\ (last.args.uri = "http://example.com/path" /\ TargetMethodExists) =>
              last.result = OK

\* C5, amended: a create_integration of type HTTP that is given a backend
\* HTTP method and credentials that are absent or of the current account
\* signals InvalidHttpEndpoint when the URI lacks a scheme and, for the URI
\* "http://example.com/path", succeeds when the target method exists;
\* without a backend HTTP method it signals IntegrationMethodNotDefined or
\* CrossAccountNotAllowed whatever the URI.
C5_HttpEndpoint ==
    (IntegrationCalled /\ last.args.integration_type = "HTTP") =>
        /\ (/\ last.args.integration_method # None
            /\ CredentialsPass(last.args.credentials)) =>
              /\ LacksScheme(last.args.uri) =>
                    last.result = "InvalidHttpEndpoint"
              /\ (last.args.uri = "http://example.com/path"
                    /\ TargetMethodExists) => last.result = OK
        /\ last.args.integration_method = None =>
              last.result = (IF CredentialsPass(last.args.credentials)
                               THEN "IntegrationMethodNotDefined"
                               ELSE "CrossAccountNotAllowed")

\* an HTTP integration with a backend HTTP method and a URI without scheme
\* was rejected
C5_Witness ==
    /\ IntegrationCalled
    /\ last.args.integration_type = "HTTP"
    /\ last.args.integration_method = "POST"
    /\ last.args.uri = "example.com/path"
    /\ last.result = "InvalidHttpEndpoint"

\* C6, as stated: a create_integration of type AWS with the URI
\* "arn:aws:s3:::bucket" and no credentials signals RoleNotSpecified, and
\* with credentials of the current account it does not.
C6_RoleNotSpecifiedAlways ==
    (/\ IntegrationCalled
     /\ last.args.integration_type = "AWS"
     /\ last.args.uri = "arn:aws:s3:::bucket") =>
        /\ last.args.credentials = None => last.result = "RoleNotSpecified"
        /\ (/\ last.args.credentials # None
            /\ MatchesAccountArn(last.args.credentials)) =>
              last.result # "RoleNotSpecified"

\* C6, amended: a create_integration of type AWS that is given a backend
\* HTTP method and no credentials signals RoleNotSpecified when the URI is
\* an API Gateway S3 integration URI ("arn:aws:apigateway:<region>:s3...");
\* for the URI "arn:aws:s3:::bucket" it never signals RoleNotSpecified but
\* InvalidIntegrationArn; with credentials of the current account and a
\* backend HTTP method the outcome is that of the checks after
\* RoleNotSpecified.
C6_RoleNotSpecified ==
    (IntegrationCalled /\ last.args.integration_type = "AWS") =>
        /\ (/\ last.args.integration_method # None
            /\ last.args.credentials = None
            /\ StartsWith(last.args.uri, "arn:aws:apigateway:us-west-2:s3")) =>
              last.result = "RoleNotSpecified"
        /\ last.args.uri = "arn:aws:s3:::bucket" =>
              /\ last.result # "RoleNotSpecified"
              /\ (/\ last.args.integration_method # None
                  /\ CredentialsPass(last.args.credentials)) =>
                    last.result = "InvalidIntegrationArn"
        /\ (/\ last.args.integration_method # None
            /\ last.args.credentials # None
            /\ MatchesAccountArn(last.args.credentials)) =>
              last.result \in
                 {"InvalidArn", "InvalidIntegrationArn", OK, KeyError}

\* an AWS integration with an API Gateway S3 URI, a backend HTTP method and
\* no credentials was rejected for the missing role
C6_Witness ==
    /\ IntegrationCalled
    /\ last.args.integration_type = "AWS"
    /\ last.args.integration_method = "POST"
    /\ last.args.credentials = None
    /\ last.args.uri = "arn:aws:apigateway:us-west-2:s3:path/b/k"
    /\ last.result = "RoleNotSpecified"

(***************************************************************************)
(* Properties of patch batches.                                            *)
(***************************************************************************)
\* the calls that apply a batch of patch operations
BatchCalls == {"update_stage", "update_authorizer", "update_apikey"}

\* the batch a call of BatchCalls was given
BatchOf(call) == IF call.op = "update_apikey" THEN call.args[2] ELSE call.args[3]

\* the entity a call of BatchCalls patches, in backend state b
BatchEntity(call, b) ==
    CASE call.op = "update_stage" -> b.apis[call.args[1]].stages[call.args[2]]
      [] call.op = "update_authorizer" ->
            b.apis[call.args[1]].authorizers[call.args[2]]
      [] call.op = "update_apikey" -> b.keys[call.args[1]]

\* the outcome of the batch of the one operation op on an entity
ApplyOne(call, entity, op) ==
    CASE call.op = "update_stage" ->
            LET r == apply_operations(entity, <<op>>)
            IN  [entity |-> r.stage, result |-> r.result]
      [] call.op = "update_authorizer" ->
            Authorizer_apply_operations(entity, <<op>>)
      [] call.op = "update_apikey" -> ApiKey_update_operations(entity, <<op>>)

\* the entity after the first n operations of ops were applied one batch
\* at a time
RECURSIVE AfterPrefix(_, _, _, _)
AfterPrefix(call, entity, ops, n) ==
    IF n = 0 THEN entity
    ELSE ApplyOne(call, AfterPrefix(call, entity, ops, n - 1), ops[n]).entity

\* C11: when operation k of a batch given to update_stage,
\* update_authorizer or update_apikey is the first to raise the exception
\* for an unsupported patch operation, the call leaves the entity as
\* operations 1..k-1 made it and applies none of the operations after k.
C11_BatchNotAtomic ==
    [][(/\ last'.op \in BatchCalls
        /\ last'.result = PatchException) =>
          LET call   == last'
              ops    == BatchOf(call)
              before == BatchEntity(call, [apis |-> apis, keys |-> keys])
              after  == BatchEntity(call, [apis |-> apis', keys |-> keys'])
          IN  \E k \in 1..Len(ops) :
                 /\ \A j \in 1..(k - 1) :
                       ApplyOne(call, AfterPrefix(call, before, ops, j - 1),
                                ops[j]).result = OK
                 /\ ApplyOne(call, AfterPrefix(call, before, ops, k - 1),
                             ops[k]).result = PatchException
                 /\ after = AfterPrefix(call, before, ops, k - 1)
      ]_vars

\* a batch on a stage whose second operation raised: the description the
\* first operation set is stored and the variable of the third is not
C11_Witness ==
    /\ last.op = "update_stage"
    /\ last.result = PatchException
    /\ last.args[3] = <<Patch("replace", "/description", "d"),
                        Patch("remove", "/unknown", ""),
                        Patch("replace", "/variables/env", "v")>>
    /\ LET stage == apis[last.args[1]].stages[last.args[2]]
       IN  stage.description = "d" /\ "env" \notin DOMAIN stage.variables

(***************************************************************************)
(* Properties of the patch operations of a stage.                          *)
(***************************************************************************)
\* the step is an update_stage that found its stage and was given the one
\* operation op
StagePatched(op) ==
    /\ last'.op = "update_stage"
    /\ last'.result \notin {"RestAPINotFound", "StageNotFoundException"}
    /\ last'.args[3] = <<op>>

\* the stage the update_stage of the step patches, before and after
StageBefore == apis[last'.args[1]].stages[last'.args[2]]
StageAfter == apis'[last'.args[1]].stages[last'.args[2]]

\* the records a and b differ in the fields of the set fields at most
SameExcept(a, b, fields) ==
    /\ DOMAIN a \ fields = DOMAIN b \ fields
    /\ \A f \in DOMAIN a \ fields : a[f] = b[f]

\* the path names one of the stage fields of section 4.3
NamesStageField(path) ==
    \/ Contains(path, "variables/")
    \/ Contains(path, "/cacheClusterEnabled")
    \/ Contains(path, "/cacheClusterSize")
    \/ Contains(path, "/description")
    \/ Contains(path, "/deploymentId")

\* the keys of methodSettings that the paths of the model name
SettingKeys == {"*/*", "a/GET", "b/GET"}

\* the path is /<r>/<m>/<category>/<name>
IsSettingsPath(path) ==
    \E key \in SettingKeys : \E category \in {"throttling", "logging",
                                             "caching", "metrics", "foo"} :
    \E name \in {"rateLimit", "loglevel", "ttlInSeconds", "enabled", "bar"} :
       path = "/" \o key \o "/" \o category \o "/" \o name

\* the path is that of the known setting name of the key key
TargetsSetting(path, key, name) ==
    /\ name \in DOMAIN SettingTranslations
    /\ path = "/" \o key \o "/" \o name

\* C12, as stated: an operation whose path names no stage field and is not
\* a method-settings path raises the exception for an unsupported patch
\* operation, whatever its op.
C12_UnknownPathAlwaysRaises ==
    [][\A op \in StagePatchOps :
          (/\ StagePatched(op)
           /\ ~NamesStageField(op.path)
           /\ ~IsSettingsPath(op.path)) =>
             last'.result = PatchException
      ]_vars

\* C12, what Stage.apply_operations does: an operation whose path names no
\* stage field raises the exception for an unsupported patch operation
\* when its op is not replace, and leaves the stage as it was; a replace on
\* a path that is not a method-settings path raises nothing and leaves the
\* stage as it was.
C12_UnknownPath ==
    [][\A op \in StagePatchOps :
          (StagePatched(op) /\ ~NamesStageField(op.path)) =>
             /\ op.op # "replace" =>
                   last'.result = PatchException /\ apis' = apis
             /\ (op.op = "replace" /\ ~IsSettingsPath(op.path)) =>
                   last'.result = OK /\ apis' = apis
      ]_vars

\* a replace on a path that names nothing was accepted
C12_Witness ==
    /\ last.op = "update_stage"
    /\ last.args[3] = <<Patch("replace", "/foo", "1")>>
    /\ last.result = OK

\* C13: a replace on /<r>/<m>/<category>/<name> with a known setting name
\* and a value of the setting's type makes, for a key without entry, the
\* entry of the nine default settings with the targeted setting set to the
\* coerced value ("500" on throttling/rateLimit gives 500.0), and for a key
\* with an entry changes the targeted setting only.
C13_MethodSettingPatch ==
    [][\A op \in StagePatchOps : \A key \in SettingKeys :
       \A name \in DOMAIN SettingTranslations :
          (/\ StagePatched(op)
           /\ op.op = "replace"
           /\ TargetsSetting(op.path, key, name)
           /\ last'.result = OK) =>
             LET target == SettingTranslations[name]
                 old    == StageBefore.methodSettings
                 new    == StageAfter.methodSettings
                 base   == IF key \in DOMAIN old THEN old[key]
                           ELSE _get_default_method_settings
             IN  /\ Cardinality(DOMAIN _get_default_method_settings) = 9
                 /\ DOMAIN new = DOMAIN old \cup {key}
                 /\ \A other \in DOMAIN old \ {key} : new[other] = old[other]
                 /\ DOMAIN new[key] = DOMAIN base \cup {target}
                 /\ \A setting \in DOMAIN base \ {target} :
                       new[key][setting] = base[setting]
                 /\ new[key][target] = _convert_to_type(target, op.value)
                 /\ (name = "throttling/rateLimit" /\ op.value = "500") =>
                       new[key][target] = [int |-> 500, frac |-> ""]
                 /\ (name = "metrics/enabled" /\ op.value = "true") =>
                       new[key][target] = PyTrue
                 /\ SameExcept(StageAfter, StageBefore, {"methodSettings"})
      ]_vars

\* the rate limit of */* was patched and then its log level: the entry has
\* both and the defaults of the rest
C13_Witness ==
    /\ last.op = "update_stage"
    /\ last.result = OK
    /\ last.args[3] = <<Patch("replace", "/*/*/logging/loglevel", "INFO")>>
    /\ LET settings == apis[last.args[1]].stages[last.args[2]].methodSettings
       IN  /\ "*/*" \in DOMAIN settings
           /\ settings["*/*"].throttlingRateLimit = [int |-> 500, frac |-> ""]
           /\ settings["*/*"].loggingLevel = "INFO"
           /\ settings["*/*"].throttlingBurstLimit = 2000

\* C14: a replace on a method-settings path whose setting name is unknown
\* raises nothing and changes nothing; a key gets its methodSettings entry
\* in the step that applies a replace with a known setting name to it, and
\* in no other step, and keeps it.
C14_UnknownSettingNoOp ==
    [][/\ \A op \in StagePatchOps :
             (/\ StagePatched(op)
              /\ op.op = "replace"
              /\ ~NamesStageField(op.path)
              /\ \A key \in SettingKeys : \A name \in DOMAIN SettingTranslations :
                    ~TargetsSetting(op.path, key, name)) =>
                last'.result = OK /\ apis' = apis
       /\ \A a \in DOMAIN apis : \A n \in DOMAIN apis[a].stages :
          \A key \in SettingKeys \cup DOMAIN apis'[a].stages[n].methodSettings :
             key \in DOMAIN apis'[a].stages[n].methodSettings <=>
                \/ key \in DOMAIN apis[a].stages[n].methodSettings
                \/ /\ last'.op = "update_stage"
                   /\ last'.args[1] = a
                   /\ last'.args[2] = n
                   /\ \E op \in StagePatchOps :
                      \E name \in DOMAIN SettingTranslations :
                         /\ last'.args[3] = <<op>>
                         /\ op.op = "replace"
                         /\ TargetsSetting(op.path, key, name)
      ]_vars

\* a replace with an unknown setting name on */* was accepted and */* has
\* no entry, while a/GET, patched with a known name, has one
C14_Witness ==
    /\ last.op = "update_stage"
    /\ last.result = OK
    /\ last.args[3] = <<Patch("replace", "/*/*/foo/bar", "1")>>
    /\ LET settings == apis[last.args[1]].stages[last.args[2]].methodSettings
       IN  DOMAIN settings = {"a/GET"}

\* C15: a replace on /cacheClusterEnabled with a value that is "true" in
\* any case sets cacheClusterEnabled to True and, on a stage without
\* cacheClusterSize, cacheClusterSize to "0.5", keeping a size the stage
\* has; any other value sets cacheClusterEnabled to False and neither adds
\* nor changes a size.
C15_CacheClusterEnabled ==
    [][\A op \in StagePatchOps :
          (StagePatched(op) /\ op.path = "/cacheClusterEnabled") =>
             /\ last'.result = OK
             /\ SameExcept(StageAfter, StageBefore,
                           {"cacheClusterEnabled", "cacheClusterSize"})
             /\ IF op.value \in {"true", "True", "TRUE"}
                  THEN /\ StageAfter.cacheClusterEnabled = PyTrue
                       /\ "cacheClusterSize" \in DOMAIN StageAfter
                       /\ StageAfter.cacheClusterSize =
                             (IF "cacheClusterSize" \in DOMAIN StageBefore
                                THEN StageBefore.cacheClusterSize ELSE "0.5")
                  ELSE /\ StageAfter.cacheClusterEnabled = PyFalse
                       /\ SameExcept(StageAfter, StageBefore,
                                     {"cacheClusterEnabled"})
      ]_vars

\* the cache cluster was enabled with "TRUE" on a stage that had the size
\* "1.6"
C15_Witness ==
    /\ last.op = "update_stage"
    /\ last.result = OK
    /\ last.args[3] = <<Patch("replace", "/cacheClusterEnabled", "TRUE")>>
    /\ LET stage == apis[last.args[1]].stages[last.args[2]]
       IN  stage.cacheClusterEnabled = PyTrue /\ stage.cacheClusterSize = "1.6"

\* C16: on a path /variables/<key>, remove deletes the key from the stage
\* variables and raises nothing when it is absent, replace sets the key to
\* the value, any other op raises the exception for an unsupported patch
\* operation and changes nothing; nothing but the variables changes, also
\* for a key named like a stage field.
C16_VariablesPatch ==
    [][\A op \in StagePatchOps : \A key \in {"env", "description"} :
          (StagePatched(op) /\ op.path = "/variables/" \o key) =>
             LET old == StageBefore.variables
                 new == StageAfter.variables
             IN  /\ SameExcept(StageAfter, StageBefore, {"variables"})
                 /\ op.op = "remove" =>
                       /\ last'.result = OK
                       /\ DOMAIN new = DOMAIN old \ {key}
                       /\ \A k \in DOMAIN new : new[k] = old[k]
                 /\ op.op = "replace" =>
                       /\ last'.result = OK
                       /\ DOMAIN new = DOMAIN old \cup {key}
                       /\ new[key] = op.value
                       /\ \A k \in DOMAIN old \ {key} : new[k] = old[k]
                 /\ op.op \notin {"remove", "replace"} =>
                       last'.result = PatchException /\ new = old
      ]_vars

\* the variable named description was set and the description of the stage
\* is the one an earlier patch gave it
C16_Witness ==
    /\ last.op = "update_stage"
    /\ last.result = OK
    /\ last.args[3] = <<Patch("replace", "/variables/description", "x")>>
    /\ LET stage == apis[last.args[1]].stages[last.args[2]]
       IN  /\ stage.variables.description = "x"
           /\ stage.description = "d"

Associations(plan_keys) ==
    UNION {{<<p, k>> : k \in DOMAIN plan_keys[p]} : p \in DOMAIN plan_keys}

\* C18: a create_usage_plan_key whose keyId is not the id of a stored API
\* key raises ApiKeyNotFoundException, and no usage plan has an association
\* it did not have.
C18_UnknownKeyRejected ==
    [][(/\ last'.op = "create_usage_plan_key"
        /\ last'.args[2] \notin DOMAIN keys) =>
          /\ last'.result = "ApiKeyNotFoundException"
          /\ Associations(usage_plan_keys') = Associations(usage_plan_keys)
          /\ \A p \in IssuedIds :
                get_usage_plan_keys(p)' = get_usage_plan_keys(p)
          /\ UNCHANGED <<keys, usage_plans>>
      ]_vars

\* the association of a key that was deleted after an earlier association
\* was refused
C18_Witness ==
    /\ last.op = "create_usage_plan_key"
    /\ last.result = "ApiKeyNotFoundException"
    /\ last.args[2] \notin DOMAIN keys
    /\ \E p \in DOMAIN usage_plan_keys : last.args[2] \in DOMAIN usage_plan_keys[p]
    /\ last.args[2] \notin DOMAIN usage_plan_keys[last.args[1]]

\* C19: update_apikey and delete_apikey leave what get_usage_plan_keys
\* returns for every usage plan as it was.
C19_UsagePlanKeyCopies ==
    [][last'.op \in {"update_apikey", "delete_apikey"} =>
          \A p \in IssuedIds :
             get_usage_plan_keys(p)' = get_usage_plan_keys(p)
      ]_vars

\* a key was renamed after its association: the usage plan key has the
\* name the key had
C19_Witness ==
    /\ last.op = "update_apikey"
    /\ last.result = OK
    /\ keys[last.args[1]].name = "n2"
    /\ \E p \in DOMAIN usage_plans :
       \E upk \in get_usage_plan_keys(p) :
          upk.id = last.args[1] /\ upk.name = "n1"

\* C20: get_usage_plans(api_key_id) returns the stored usage plans that
\* are associated with the key id, and get_usage_plans() every stored
\* usage plan.
C20_UsagePlansFilter ==
    /\ \A k \in IssuedIds :
          get_usage_plans(k) =
             {usage_plans[p] : p \in
                 {q \in DOMAIN usage_plans :
                     <<q, k>> \in Associations(usage_plan_keys)}}
    /\ get_usage_plans(None) = {usage_plans[p] : p \in DOMAIN usage_plans}

\* two stored usage plans, one of them associated with a key and the other
\* with another key only
C20_Witness ==
    \E k \in DOMAIN keys : \E p1 \in DOMAIN usage_plans :
    \E p2 \in DOMAIN usage_plans \ {p1} :
       /\ get_usage_plans(k) = {usage_plans[p1]}
       /\ get_usage_plans(None) = {usage_plans[p1], usage_plans[p2]}
       /\ \E k2 \in DOMAIN keys \ {k} : <<p2, k2>> \in Associations(usage_plan_keys)

(***************************************************************************)
(* Properties of put_rest_api.                                             *)
(***************************************************************************)
\* the document and the mode of the put_rest_api call that a step makes
ImportedDoc == last'.args[2]
ImportMode == last'.args[3]

\* a document carries a swagger field, or an openapi field whose version is
\* not 3.x
VersionRefused(doc) ==
    \/ "swagger" \in DOMAIN doc /\ doc["swagger"] # None
    \/ /\ "openapi" \in DOMAIN doc
       /\ doc["openapi"] # None
       /\ ~StartsWith(doc["openapi"], "3")

\* an OpenAPI 3.x document that has its paths, and the responses of every
\* method; the key "swagger" is absent or null
WellFormed(doc) ==
    /\ ~VersionRefused(doc)
    /\ "openapi" \in DOMAIN doc /\ doc["openapi"] # None
    /\ "paths" \in DOMAIN doc
    /\ \A p \in DOMAIN doc["paths"] : \A m \in DOMAIN doc["paths"][p] :
          "responses" \in DOMAIN doc["paths"][p][m]

\* C21: put_rest_api raises InvalidOpenApiModeException exactly for the
\* modes other than merge and overwrite; an overwrite import of a
\* well-formed document leaves none of the resources the API had, and a
\* merge import keeps every one of them.
C21_ImportModes ==
    [][last'.op = "put_rest_api" =>
          /\ (ImportMode \notin {"merge", "overwrite"}) <=>
                (last'.result = "InvalidOpenApiModeException")
          /\ \A a \in DOMAIN apis :
                (last'.args[1] = a /\ ImportMode = "merge") =>
                   \A r \in ResourceIds(apis[a].resources) :
                      /\ r \in ResourceIds(apis'[a].resources)
                      /\ ResourceAt(apis'[a].resources, r) =
                            ResourceAt(apis[a].resources, r)
          /\ \A a \in DOMAIN apis :
                (/\ last'.args[1] = a
                 /\ ImportMode = "overwrite"
                 /\ WellFormed(ImportedDoc)) =>
                   /\ ResourceIds(apis'[a].resources) \cap
                         ResourceIds(apis[a].resources) = {}
                   /\ \E i \in 1..Len(apis'[a].resources) :
                         /\ apis'[a].resources[i].path_part = "/"
                         /\ ~Truthy(apis'[a].resources[i].parent_id)
      ]_vars

\* C21, what put_rest_api does: the mode is checked first, and in either
\* accepted mode the resources of every API stay as they are.
C21_ModeChecked ==
    [][last'.op = "put_rest_api" =>
          /\ (ImportMode \notin {"merge", "overwrite"}) <=>
                (last'.result = "InvalidOpenApiModeException")
          /\ apis' = apis
      ]_vars

\* an overwrite import of a well-formed document into an API that has a
\* resource besides its root
C21_Witness ==
    /\ last.op = "put_rest_api"
    /\ last.args[3] = "overwrite"
    /\ last.args[1] \in DOMAIN apis
    /\ last.result = "AttributeError"
    /\ backend_resources = "{}"
    /\ Len(apis[last.args[1]].resources) > 1

\* the path of the parent of a path of a document: what is before the last
\* "/", or "/"
ParentPathOf(path) ==
    IF RFind(path, "/") <= 1 THEN "/" ELSE SubSeq(path, 1, RFind(path, "/") - 1)

\* what is after the last "/" of a path
LastPartOf(path) == SubSeq(path, RFind(path, "/") + 1, Len(path))

\* a method of a resource is what the document says of it
ImportedMethod(resource, m, method_doc) ==
    /\ m \in DOMAIN resource.resource_methods
    /\ IF method_doc["x-amazon-apigateway-integration"] # NoneObj
         THEN /\ resource.resource_methods[m].methodIntegration # NoneObj
              /\ DOMAIN method_doc["responses"] \subseteq
                    DOMAIN resource.resource_methods[m].methodIntegration
                              .integrationResponses
         ELSE /\ resource.resource_methods[m].methodIntegration = NoneObj
              /\ DOMAIN resource.resource_methods[m].method_responses =
                    DOMAIN method_doc["responses"]

\* an API has, for a path of a document, a child of the node of the parent
\* path with the methods of the document
ImportedPath(api, path, resource_doc) ==
    \E i \in 1..Len(api.resources) : \E j \in 1..Len(api.resources) :
       /\ get_path(api.resources, api.resources[j]) = ParentPathOf(path)
       /\ api.resources[i].parent_id = api.resources[j].id
       /\ api.resources[i].path_part = LastPartOf(path)
       /\ \A m \in DOMAIN resource_doc :
             ImportedMethod(api.resources[i], m, resource_doc[m])

\* C22: put_rest_api of a well-formed OpenAPI 3.x document, in an accepted
\* mode and for a stored API, returns the API, which then has for every
\* path of the document a child resource under the node of the parent path,
\* with the methods, integrations and responses of the document.
C22_ImportCreates ==
    [][(/\ last'.op = "put_rest_api"
        /\ last'.args[1] \in DOMAIN apis
        /\ ImportMode \in {"merge", "overwrite"}
        /\ WellFormed(ImportedDoc)
        /\ last'.args[4] = PyFalse) =>
          /\ last'.result = OK
          /\ \A path \in DOMAIN ImportedDoc["paths"] :
                ImportedPath(apis'[last'.args[1]], path,
                             ImportedDoc["paths"][path])
      ]_vars

\* C23: put_rest_api in an accepted mode raises
\* InvalidOpenApiDocVersionException for a document with a swagger field
\* or an openapi field that is not 3.x, InvalidOpenAPIDocumentException for
\* another document that lacks an expected key, and never KeyError.
C23_ImportErrors ==
    [][(last'.op = "put_rest_api" /\ ImportMode \in {"merge", "overwrite"}) =>
          /\ VersionRefused(ImportedDoc) =>
                last'.result = "InvalidOpenApiDocVersionException"
          /\ (~VersionRefused(ImportedDoc) /\ ~WellFormed(ImportedDoc)) =>
                last'.result = "InvalidOpenAPIDocumentException"
          /\ last'.result # KeyError
      ]_vars

\* C23, what put_rest_api does in the merge mode for the documents that
\* have the keys "swagger" and "openapi": the version is checked first,
\* and a document without "paths" is refused as an invalid document.
C23_VersionCheckedFirst ==
    [][(/\ last'.op = "put_rest_api"
        /\ ImportMode = "merge"
        /\ {"swagger", "openapi"} \subseteq DOMAIN ImportedDoc
        /\ ImportedDoc["openapi"] # "") =>
          /\ VersionRefused(ImportedDoc) <=>
                (last'.result = "InvalidOpenApiDocVersionException")
          /\ (~VersionRefused(ImportedDoc) /\ "paths" \notin DOMAIN ImportedDoc) =>
                last'.result = "InvalidOpenAPIDocumentException"
      ]_vars

(***************************************************************************)
(* Properties of the validation errors.                                    *)
(***************************************************************************)
\* the errors of the validation class and the operations that raise them
ValidationErrors ==
    {<<"create_resource", "InvalidResourcePathException">>,
     <<"create_integration_response", "InvalidRequestInput">>,
     <<"create_domain_name", "InvalidDomainName">>,
     <<"create_model", "InvalidRestApiId">>,
     <<"create_model", "InvalidModelName">>,
     <<"put_rest_api", "InvalidOpenApiModeException">>,
     <<"put_rest_api", "InvalidOpenApiDocVersionException">>,
     <<"put_rest_api", "InvalidOpenAPIDocumentException">>}

\* C24: a call that raises an error of the validation class leaves the
\* APIs, the API keys, the usage plans and their keys, the domain names,
\* the attributes of the backend and the identifiers issued as they were.
C24_ValidateThenCommit ==
    [][(<<last'.op, last'.result>> \in ValidationErrors) =>
          UNCHANGED <<apis, nextId, keys, usage_plans, usage_plan_keys,
                      domain_names, backend_resources>>
      ]_vars

\* an import was refused as an invalid document by a backend that has a
\* domain name, and whose API has a model, a second resource and an
\* integration with a second response
C24_Witness ==
    /\ <<last.op, last.result>> = <<"put_rest_api", "InvalidOpenAPIDocumentException">>
    /\ DOMAIN domain_names # {}
    /\ \E a \in DOMAIN apis :
          /\ DOMAIN apis[a].models # {}
          /\ Len(apis[a].resources) > 1
          /\ apis[a].resources[1].resource_methods["GET"].methodIntegration # NoneObj
          /\ "404" \in DOMAIN apis[a].resources[1].resource_methods["GET"]
                                 .methodIntegration.integrationResponses

(***************************************************************************)
(* Properties of the lookup of a stage.                                    *)
(***************************************************************************)
\* a step calls get_stage, update_stage or delete_stage for a stored API
\* with a name that is not in the stages of the API
AbsentStageCalled ==
    /\ last'.op \in {"get_stage", "update_stage", "delete_stage"}
    /\ last'.args[1] \in DOMAIN apis
    /\ last'.args[2] \notin DOMAIN apis[last'.args[1]].stages

\* C25: get_stage, update_stage and delete_stage with a stage name that the
\* API does not have raise StageNotFoundException and leave the stages of
\* the API as they were.
C25_StageNotFound ==
    [][AbsentStageCalled =>
          /\ last'.result = "StageNotFoundException"
          /\ apis'[last'.args[1]].stages = apis[last'.args[1]].stages
      ]_vars

\* C25, what the three calls do: get_stage and update_stage raise
\* StageNotFoundException, delete_stage raises KeyError, and the APIs stay
\* as they were.
C25_AbsentStage ==
    [][AbsentStageCalled =>
          /\ last'.result = IF last'.op = "delete_stage"
                              THEN KeyError ELSE "StageNotFoundException"
          /\ apis' = apis
      ]_vars

\* update_stage was refused for a name the API does not have, while it has
\* another stage
C25_Witness ==
    /\ last.op = "update_stage"
    /\ last.result = "StageNotFoundException"
    /\ last.args[1] \in DOMAIN apis
    /\ last.args[2] \notin DOMAIN apis[last.args[1]].stages
    /\ DOMAIN apis[last.args[1]].stages # {}

(***************************************************************************)
(* Properties of the authorizers.                                          *)
(***************************************************************************)
\* the keys of an authorizer and the keyword arguments they are made from
AuthorizerFields ==
    {<<"authType", "auth_type">>, <<"authorizerUri", "authorizer_uri">>,
     <<"authorizerCredentials", "authorizer_credentials">>,
     <<"identitySource", "identity_source">>,
     <<"authorizerResultTtlInSeconds", "authorizer_result_ttl">>}

\* the validation expression given to create_authorizer, under either name
SuppliedExpression(kwargs) ==
    IF "identity_validation_expression" \in DOMAIN kwargs
      THEN kwargs["identity_validation_expression"]
      ELSE KwargsGet(kwargs, "identiy_validation_expression")

\* a key of a record has the value that was supplied; a value that was not
\* supplied, or an empty one, may be left out of the record
KeptAs(record, k, supplied) ==
    \/ KwargsGet(record, k) = supplied
    \/ ~Truthy(supplied) /\ k \notin DOMAIN record

\* create_authorizer has just returned
AuthorizerCreated == last.op = "create_authorizer" /\ last.result = OK

\* C26: after create_authorizer, get_authorizer with the returned id gives
\* a record with the name, the type and every keyword value that was
\* supplied, the identity validation expression included.
C26_AuthorizerRoundTrip ==
    AuthorizerCreated =>
       /\ get_authorizer_error(last.args[1], last.ret) = OK
       /\ get_authorizer(last.args[1], last.ret).name = last.args[2]
       /\ get_authorizer(last.args[1], last.ret).type = last.args[3]
       /\ \A f \in AuthorizerFields :
             KeptAs(get_authorizer(last.args[1], last.ret), f[1],
                    KwargsGet(last.args[4], f[2]))
       /\ KeptAs(get_authorizer(last.args[1], last.ret),
                 "identityValidationExpression", SuppliedExpression(last.args[4]))

\* C26, what create_authorizer stores: the name, the type and the keyword
\* values other than the identity validation expression, which no created
\* authorizer has.
C26_AuthorizerStored ==
    AuthorizerCreated =>
       /\ get_authorizer_error(last.args[1], last.ret) = OK
       /\ get_authorizer(last.args[1], last.ret).name = last.args[2]
       /\ get_authorizer(last.args[1], last.ret).type = last.args[3]
       /\ \A f \in AuthorizerFields :
             KeptAs(get_authorizer(last.args[1], last.ret), f[1],
                    KwargsGet(last.args[4], f[2]))
       /\ "identityValidationExpression" \notin
             DOMAIN get_authorizer(last.args[1], last.ret)

\* an authorizer was created with a validation expression
C26_Witness ==
    /\ AuthorizerCreated
    /\ SuppliedExpression(last.args[4]) = "expr"
    /\ get_authorizer(last.args[1], last.ret).authorizerUri = "uri"

(***************************************************************************)
(* Properties of the integration that create_integration stores.           *)
(***************************************************************************)
\* create_integration has just returned
IntegrationCreated == last.op = "create_integration" /\ last.result = OK

\* the integration that get_integration returns for the method of the call
CreatedIntegration ==
    get_integration(last.args.function_id, last.args.resource_id,
                    last.args.method_type)

\* C27: after a successful create_integration, get_integration on the same
\* method gives a record with the type, the uri and the request templates
\* of the call, with the integration method of the call as httpMethod, and
\* with the default response 200 as its only integration response.
C27_IntegrationRoundTrip ==
    IntegrationCreated =>
       /\ get_integration_error(last.args.function_id, last.args.resource_id,
                                last.args.method_type) = OK
       /\ CreatedIntegration.type = last.args.integration_type
       /\ CreatedIntegration.uri = last.args.uri
       /\ CreatedIntegration.requestTemplates = last.args.request_templates
       /\ CreatedIntegration.httpMethod = last.args.integration_method
       /\ DOMAIN CreatedIntegration.integrationResponses = {"200"}

\* C27, what create_integration stores: the same, with the method of the
\* resource as httpMethod.
C27_IntegrationStored ==
    IntegrationCreated =>
       /\ get_integration_error(last.args.function_id, last.args.resource_id,
                                last.args.method_type) = OK
       /\ CreatedIntegration.type = last.args.integration_type
       /\ CreatedIntegration.uri = last.args.uri
       /\ CreatedIntegration.requestTemplates = last.args.request_templates
       /\ CreatedIntegration.httpMethod = last.args.method_type
       /\ DOMAIN CreatedIntegration.integrationResponses = {"200"}
       /\ CreatedIntegration.integrationResponses["200"] =
             IntegrationResponse(200, None, NoneObj, None)

\* an integration was created on GET with the integration method POST
C27_Witness ==
    /\ IntegrationCreated
    /\ last.args.method_type = "GET"
    /\ last.args.integration_method = "POST"
    /\ CreatedIntegration.httpMethod = "GET"

(***************************************************************************)
(* Properties of a create_deployment that is refused.                      *)
(***************************************************************************)
\* C28: a create_deployment that raises NoMethodDefined or
\* NoIntegrationDefined leaves the deployments and the stages of the API as
\* they were, and the rest of the backend too.
C28_RefusedDeploymentFrame ==
    [][(/\ last'.op = "create_deployment"
        /\ last'.result \in {"NoMethodDefined", "NoIntegrationDefined"}) =>
          /\ apis'[last'.args.function_id].deployments =
                apis[last'.args.function_id].deployments
          /\ apis'[last'.args.function_id].stages =
                apis[last'.args.function_id].stages
          /\ UNCHANGED <<apis, nextId, keyVars>>
      ]_vars

\* a deployment was refused for the name of a stage that the API has, with
\* stage variables other than those of the stage
C28_Witness ==
    /\ last.op = "create_deployment"
    /\ last.result \in {"NoMethodDefined", "NoIntegrationDefined"}
    /\ last.args.name \in DOMAIN apis[last.args.function_id].stages
    /\ apis[last.args.function_id].stages[last.args.name].variables #
          last.args.stage_variables

(***************************************************************************)
(* Properties of the lookup of a resource by its path.                     *)
(***************************************************************************)
\* get_resource_for_path has just been called
PathLookedUp == last.op = "get_resource_for_path"

\* the positions of the resources of the API of the call whose path is the
\* path of the call
MatchingPositions ==
    {i \in 1..Len(apis[last.args[1]].resources) :
        get_path(apis[last.args[1]].resources,
                 apis[last.args[1]].resources[i]) = last.args[2]}

\* the first resource of the API whose path is the path of the call
FirstMatch ==
    apis[last.args[1]].resources[
        CHOOSE i \in MatchingPositions : \A j \in MatchingPositions : i <= j]

\* C29: get_resource_for_path returns the first resource, in the order of
\* the scan, whose path is the given one when there is such a resource,
\* and raises NotFound when there is none.
C29_ResourceForPath ==
    PathLookedUp =>
       IF MatchingPositions # {}
         THEN last.result = OK /\ last.ret = FirstMatch.id
         ELSE last.result \notin {OK, KeyError}

\* C29, what get_resource_for_path does: it returns the first resource
\* with the path unless get_path raises KeyError for a resource before it,
\* and returns None, without raising, when no resource has the path.
C29_FirstMatchOrNone ==
    PathLookedUp =>
       /\ last.result = OK =>
             IF MatchingPositions # {}
               THEN last.ret = FirstMatch.id ELSE last.ret = None
       /\ last.result \in {OK, KeyError}
       /\ last.result = KeyError =>
             \E i \in 1..Len(apis[last.args[1]].resources) :
                /\ get_path(apis[last.args[1]].resources,
                            apis[last.args[1]].resources[i]) = KeyError
                /\ \A j \in MatchingPositions : i < j

\* the path of two resources was looked up
C29_Witness ==
    /\ PathLookedUp
    /\ last.result = OK
    /\ Cardinality(MatchingPositions) > 1
    /\ last.ret = FirstMatch.id

(***************************************************************************)
(* Properties of delete_resource.                                          *)
(***************************************************************************)
\* delete_resource returns in a step
ResourceDeleted == last'.op = "delete_resource" /\ last'.result = OK

\* C30: delete_resource removes the named resource from the resources of
\* the API and nothing else: every other resource stays, in its place, with
\* its parent id and its methods, and the deployments and stages of the
\* API, the other APIs and the rest of the backend are unchanged.
C30_DeleteResourceFrame ==
    [][ResourceDeleted =>
          /\ ResourceIds(apis'[last'.args[1]].resources) =
                ResourceIds(apis[last'.args[1]].resources) \ {last'.args[2]}
          /\ \A r \in ResourceIds(apis'[last'.args[1]].resources) :
                ResourceAt(apis'[last'.args[1]].resources, r) =
                   ResourceAt(apis[last'.args[1]].resources, r)
          /\ Len(apis'[last'.args[1]].resources) =
                Len(apis[last'.args[1]].resources) - 1
          /\ apis' = [apis EXCEPT ![last'.args[1]].resources =
                         apis'[last'.args[1]].resources]
          /\ UNCHANGED <<nextId, keyVars>>
      ]_vars

\* a resource was deleted whose child, with a method, is still in the
\* mapping of an API that has a deployment and a stage
C30_Witness ==
    /\ last.op = "delete_resource"
    /\ last.result = OK
    /\ DOMAIN apis[last.args[1]].deployments # {}
    /\ DOMAIN apis[last.args[1]].stages # {}
    /\ \E i \in 1..Len(apis[last.args[1]].resources) :
          /\ apis[last.args[1]].resources[i].parent_id = last.args[2]
          /\ DOMAIN apis[last.args[1]].resources[i].resource_methods # {}

(***************************************************************************)
(* Properties of create_method.                                            *)
(***************************************************************************)
\* the methods of the resource of the call of a step, before and after it
MethodsBefore ==
    ResourceAt(apis[last'.args[1]].resources, last'.args[2]).resource_methods

MethodsAfter ==
    ResourceAt(apis'[last'.args[1]].resources, last'.args[2]).resource_methods

\* C31: create_method on a resource that is there returns, whether or not
\* the resource has a method of the verb: afterwards the method of the verb
\* has the authorization type of the call, apiKeyRequired false unless it
\* was given, no integration and no method responses, and the methods of
\* the other verbs are those the resource had.
C31_CreateMethodOverwrites ==
    [][(/\ last'.op = "create_method"
        /\ get_resource_error(last'.args[1], last'.args[2]) = OK) =>
          /\ last'.result = OK
          /\ DOMAIN MethodsAfter = DOMAIN MethodsBefore \cup {last'.args[3]}
          /\ MethodsAfter[last'.args[3]] =
                [httpMethod |-> last'.args[3],
                 authorizationType |-> last'.args[4],
                 apiKeyRequired |-> IF last'.args[5] = None
                                      THEN PyFalse ELSE last'.args[5],
                 methodIntegration |-> NoneObj,
                 method_responses |-> EmptyDict]
          /\ \A m \in DOMAIN MethodsBefore \ {last'.args[3]} :
                MethodsAfter[m] = MethodsBefore[m]
          /\ UNCHANGED <<nextId, keyVars>>
      ]_vars

\* the method GET, which the root has from the start, was created again
\* with another authorization type, while POST has its integration and its
\* response
C31_Witness ==
    /\ last.op = "create_method"
    /\ last.result = OK
    /\ last.args[3] = "GET"
    /\ last.args[4] = "AWS_IAM"
    /\ \E a \in DOMAIN apis :
          /\ "POST" \in DOMAIN apis[a].resources[1].resource_methods
          /\ apis[a].resources[1].resource_methods["POST"].methodIntegration # NoneObj
          /\ DOMAIN apis[a].resources[1].resource_methods["POST"].method_responses # {}
          /\ apis[a].resources[1].resource_methods["GET"].methodIntegration = NoneObj

(***************************************************************************)
(* Properties of the parent links.                                         *)
(***************************************************************************)
RECURSIVE ParentWalk(_, _, _)
\* where following the parent links from r ends within fuel steps: at a
\* node without a parent, at a parent id that is not in the mapping, or
\* nowhere
ParentWalk(resources, r, fuel) ==
    IF ~Truthy(r.parent_id) THEN "root"
    ELSE IF r.parent_id \notin ResourceIds(resources) THEN "missing"
    ELSE IF fuel = 0 THEN "cycle"
    ELSE ParentWalk(resources, ResourceAt(resources, r.parent_id), fuel - 1)

RECURSIVE PartsFromRoot(_, _, _)
\* the path parts of the ancestors of r and of r, the topmost first
PartsFromRoot(resources, r, fuel) ==
    IF ~Truthy(r.parent_id) \/ r.parent_id \notin ResourceIds(resources)
          \/ fuel = 0
      THEN <<r.path_part>>
      ELSE Append(PartsFromRoot(resources,
                                ResourceAt(resources, r.parent_id), fuel - 1),
                  r.path_part)

RECURSIVE ComposedPath(_)
\* the parts joined by "/", none added after a path that is "/"
ComposedPath(parts) ==
    IF Len(parts) = 1 THEN parts[1]
    ELSE LET above == ComposedPath(SubSeq(parts, 1, Len(parts) - 1))
         IN  (IF above = "/" THEN above ELSE above \o "/") \o parts[Len(parts)]

\* C32: following the parent links from any resource ends, after at most
\* as many steps as the API has resources, at a resource without a parent
\* or at a parent id that is not in the mapping; get_path() of the
\* resource is the composed path in the first case and a KeyError in the
\* second.
C32_ParentLinksAcyclic ==
    \A a \in DOMAIN apis : \A i \in 1..Len(apis[a].resources) :
        LET rs   == apis[a].resources
            r    == rs[i]
            walk == ParentWalk(rs, r, Len(rs))
        IN  /\ walk # "cycle"
            /\ walk = "root" =>
                  get_path(rs, r) = ComposedPath(PartsFromRoot(rs, r, Len(rs)))
            /\ walk = "missing" => get_path(rs, r) = KeyError

\* a resource was deleted, and a resource whose parent is in the mapping
\* has no path because the parent of its parent is the deleted one
C32_Witness ==
    /\ last.op = "delete_resource"
    /\ last.result = OK
    /\ \E a \in DOMAIN apis : \E i \in 1..Len(apis[a].resources) :
          LET rs == apis[a].resources
          IN  /\ rs[i].parent_id \in ResourceIds(rs)
              /\ get_path(rs, rs[i]) = KeyError
              /\ ResourceAt(rs, rs[i].parent_id).parent_id = last.args[2]

(***************************************************************************)
(* Properties of the stages' deployment ids.                               *)
(***************************************************************************)
\* C33: in every state reached through create_deployment, create_stage,
\* update_stage, delete_stage and delete_deployment, the deploymentId of
\* each stage of an API is the id of a deployment in the deployments
\* mapping of that API.
C33_StageDeploymentPresent ==
    \A a \in DOMAIN apis : \A n \in DOMAIN apis[a].stages :
        apis[a].stages[n].deploymentId \in DOMAIN apis[a].deployments

(***************************************************************************)
(* Properties of a create_usage_plan_key call that fails.                  *)
(***************************************************************************)
\* C34: a create_usage_plan_key call that raises ApiKeyNotFoundException
\* leaves the backend as it was: the usage_plan_keys mapping, the set of
\* usage plan ids that are its keys, and everything else.
C34_FailedKeyCallChangesNothing ==
    [][(/\ last'.op = "create_usage_plan_key"
        /\ last'.result = "ApiKeyNotFoundException") =>
          /\ DOMAIN usage_plan_keys' = DOMAIN usage_plan_keys
          /\ UNCHANGED <<usage_plan_keys, keys, usage_plans, domainVars,
                         apis, nextId>>
      ]_vars

====
